---- MODULE Spec2Model ----
(***************************************************************************)
(* APILab MCP gateway: the Cloudflare worker (session negotiator, protocol *)
(* client, session registry) and the frontend hook that drives it.         *)
(*                                                                         *)
(* Response bodies are sequences of lexical tokens.  JSON.parse and the    *)
(* regular expression /data:\s*({.*})/ are evaluated on those sequences.   *)
(***************************************************************************)
EXTENDS Naturals, Sequences, FiniteSets, TLC

(***************************************************************************)
(* Lexical tokens of a response body                                       *)
(***************************************************************************)
\* JSON insignificant whitespace (also what \s matches in the regex)
WsTokens == {" ", "<NL>"}

\* "<NL>" is a line feed; "'a<LS>b'" is a JSON string literal holding a raw
\* U+2028: legal inside a JSON string, and a line terminator for the regex "."
LineTerminators == {"<NL>", "'a<LS>b'"}

KeyTokens == {"error:", "result:", "message:", "tools:"}

AtomTokens == {"'X'", "''", "'a<LS>b'", "null", "[]", "[T]"}

\* object member name of a key token
KeyName(tok) ==
  CASE tok = "error:" -> "error"
    [] tok = "result:" -> "result"
    [] tok = "message:" -> "message"
    [] OTHER -> "tools"

(***************************************************************************)
(* JSON values                                                             *)
(***************************************************************************)
JUndef == [t |-> "undefined"]
JNull == [t |-> "null"]
JStr(s) == [t |-> "string", s |-> s]
JArr(items) == [t |-> "array", items |-> items]
JObj(m) == [t |-> "object", m |-> m]
NoMembers == <<>>

AtomValue(tok) ==
  CASE tok = "'X'" -> JStr(<<"X">>)
    [] tok = "''" -> JStr(<<>>)
    [] tok = "'a<LS>b'" -> JStr(<<"a<LS>b">>)
    [] tok = "null" -> JNull
    [] tok = "[]" -> JArr(<<>>)
    [] OTHER -> JArr(<<"T">>)

\* JavaScript truthiness (the operand of "if (...)" and of "||")
Truthy(v) ==
  CASE v.t \in {"undefined", "null"} -> FALSE
    [] v.t = "string" -> v.s # <<>>
    [] OTHER -> TRUE

\* v.k for a value that is neither null nor undefined
Prop(v, k) ==
  IF v.t = "object" /\ k \in DOMAIN v.m THEN v.m[k] ELSE JUndef

\* v.k throws a TypeError
PropThrows(v) == v.t \in {"undefined", "null"}

(***************************************************************************)
(* JSON.parse on token sequences                                           *)
(***************************************************************************)
ParseFail == [ok |-> FALSE, v |-> JUndef, n |-> 0]

RECURSIVE SkipWs(_, _)
SkipWs(toks, i) ==
  IF i <= Len(toks) /\ toks[i] \in WsTokens THEN SkipWs(toks, i + 1) ELSE i

RECURSIVE ParseValue(_, _)
RECURSIVE ParseMembers(_, _, _)
ParseValue(toks, i) ==
  LET j == SkipWs(toks, i)
  IN  IF j > Len(toks) THEN ParseFail
      ELSE IF toks[j] = "{" THEN ParseMembers(toks, j + 1, NoMembers)
      ELSE IF toks[j] \in AtomTokens
           THEN [ok |-> TRUE, v |-> AtomValue(toks[j]), n |-> j + 1]
      ELSE ParseFail

\* members of an object after its "{"; a repeated name keeps the last value
ParseMembers(toks, i, acc) ==
  LET j == SkipWs(toks, i)
  IN  IF j > Len(toks) THEN ParseFail
      ELSE IF toks[j] = "}" THEN [ok |-> TRUE, v |-> JObj(acc), n |-> j + 1]
      ELSE IF toks[j] \in KeyTokens
           THEN LET r == ParseValue(toks, j + 1)
                IN  IF r.ok
                    THEN ParseMembers(toks, r.n, (KeyName(toks[j]) :> r.v) @@ acc)
                    ELSE ParseFail
      ELSE ParseFail

\* JSON.parse(text): ok = FALSE is a SyntaxError
JSONparse(toks) ==
  LET r == ParseValue(toks, 1)
  IN  IF r.ok /\ SkipWs(toks, r.n) > Len(toks)
      THEN [ok |-> TRUE, v |-> r.v]
      ELSE [ok |-> FALSE, v |-> JUndef]

\* JSON.stringify(v) for a defined value, members in a fixed order
MemberOrder == <<"error", "result", "message", "tools">>

KeyToken(k) ==
  CASE k = "error" -> "error:"
    [] k = "result" -> "result:"
    [] k = "message" -> "message:"
    [] OTHER -> "tools:"

RECURSIVE Stringify(_)
RECURSIVE StringifyMembers(_, _)
Stringify(v) ==
  CASE v.t = "null" -> <<"null">>
    [] v.t = "string" ->
         IF v.s = <<>> THEN <<"''">>
         ELSE IF v.s = <<"X">> THEN <<"'X'">> ELSE <<"'a<LS>b'">>
    [] v.t = "array" -> IF v.items = <<>> THEN <<"[]">> ELSE <<"[T]">>
    [] v.t = "object" -> <<"{">> \o StringifyMembers(v.m, 1) \o <<"}">>
    [] OTHER -> <<>>

StringifyMembers(m, i) ==
  IF i > Len(MemberOrder) THEN <<>>
  ELSE (IF MemberOrder[i] \in DOMAIN m
        THEN <<KeyToken(MemberOrder[i])>> \o Stringify(m[MemberOrder[i]])
        ELSE <<>>) \o StringifyMembers(m, i + 1)

(***************************************************************************)
(* responseText.match(/data:\s*({.*})/)                                    *)
(***************************************************************************)
\* first line terminator at or after position i (Len + 1 if none)
RECURSIVE LineEnd(_, _)
LineEnd(toks, i) ==
  IF i > Len(toks) \/ toks[i] \in LineTerminators THEN i
  ELSE LineEnd(toks, i + 1)

\* the match that starts at the "data:" at position i:
\* \s* runs to the first non-blank, which must be "{"; ".*" is greedy and
\* stays on the line, so the group ends at the last "}" of that line
MatchAt(toks, i) ==
  LET j == SkipWs(toks, i + 1)
      e == IF j <= Len(toks) THEN LineEnd(toks, j) ELSE j
      closers == {k \in (j + 1)..(e - 1) : toks[k] = "}"}
  IN  IF toks[i] = "data:" /\ j <= Len(toks) /\ toks[j] = "{" /\ closers # {}
      THEN [ok |-> TRUE,
            group |-> SubSeq(toks, j, CHOOSE k \in closers : \A l \in closers : l <= k)]
      ELSE [ok |-> FALSE, group |-> <<>>]

\* leftmost match; ok = FALSE when match() returns null
DataMatch(toks) ==
  LET starts == {i \in 1..Len(toks) : MatchAt(toks, i).ok}
  IN  IF starts = {} THEN [ok |-> FALSE, group |-> <<>>]
      ELSE MatchAt(toks, CHOOSE i \in starts : \A l \in starts : i <= l)

\* a classification by the content-type alone
IsSseByHeader(contentType, toks) == contentType = "text/event-stream"

\* contentType.includes('text/event-stream') || responseText.startsWith('event:')
IsSse(contentType, toks) ==
  \/ contentType = "text/event-stream"
  \/ (Len(toks) > 0 /\ toks[1] = "event: message")

(***************************************************************************)
(* Text of messages: sequences of tokens, like the bodies                  *)
(***************************************************************************)
StatusText(status) ==
  CASE status = 200 -> "200"
    [] status = 202 -> "202"
    [] status = 400 -> "400"
    [] status = 404 -> "404"
    [] OTHER -> "500"

\* response.ok
IsOk(status) == status >= 200 /\ status <= 299

\* `${v}` in a template literal
TemplateText(v) ==
  CASE v.t = "string" -> v.s
    [] v.t = "array" -> IF v.items = <<>> THEN <<>> ELSE <<"[object Object]">>
    [] v.t = "object" -> <<"[object Object]">>
    [] OTHER -> <<v.t>>

\* what fetch() rejects with when the connection fails
FetchFailedText == <<"fetch failed">>
SyntaxErrorText == <<"SyntaxError: Unexpected token in JSON">>
TypeErrorText == <<"TypeError: Cannot read properties">>
NoSseDataText == <<"Failed to parse SSE response">>
SandboxNotFoundText == <<"Sandbox not found">>

(***************************************************************************)
(* The remote MCP endpoint as the worker sees it: one round trip           *)
(***************************************************************************)
\* net = "fail": fetch() rejects; otherwise status, content-type, body and
\* the Mcp-Session-Id response header ("<none>" when the header is absent)
RemoteFail == [net |-> "fail", status |-> 0, ct |-> "", body |-> <<>>, sid |-> "<none>"]
RemoteResp(status, ct, body, sid) ==
  [net |-> "ok", status |-> status, ct |-> ct, body |-> body, sid |-> sid]

(***************************************************************************)
(* GET /api/mcp/tools/:id after the registry lookup                        *)
(***************************************************************************)
\* the envelope decode of the tools handler
ToolsDecode(contentType, toks) ==
  IF IsSse(contentType, toks)
  THEN LET dm == DataMatch(toks)
       IN  IF dm.ok
           THEN LET p == JSONparse(dm.group)
                IN  [ok |-> p.ok, v |-> p.v, err |-> SyntaxErrorText]
           ELSE [ok |-> FALSE, v |-> JUndef, err |-> NoSseDataText]
  ELSE LET p == JSONparse(toks)
       IN  [ok |-> p.ok, v |-> p.v, err |-> SyntaxErrorText]

\* mcpData.error.message || JSON.stringify(mcpData.error)
ErrorMessageOf(error) ==
  LET m == Prop(error, "message")
  IN  IF Truthy(m) THEN m ELSE JStr(Stringify(error))

\* mcpData.result.tools, without the "?." and the "|| []"
ToolsOfResult(mcpData) == Prop(Prop(mcpData, "result"), "tools")

\* mcpData.result?.tools || []
ToolsOf(mcpData) ==
  LET result == Prop(mcpData, "result")
      tools == IF PropThrows(result) THEN JUndef ELSE Prop(result, "tools")
  IN  IF Truthy(tools) THEN tools ELSE JArr(<<>>)

\* tools.length: def = FALSE when the property is undefined
LengthOf(v) ==
  CASE v.t = "array" -> [def |-> TRUE, n |-> Len(v.items)]
    [] v.t = "string" -> [def |-> TRUE, n |-> IF v.s = <<"X">> THEN 1 ELSE 3]
    [] OTHER -> [def |-> FALSE, n |-> 0]

\* the headers of the CORS preflight, and those of corsResponse
CorsHeaders ==
  {"Access-Control-Allow-Origin: *",
   "Access-Control-Allow-Methods: GET, POST, OPTIONS",
   "Access-Control-Allow-Headers: Content-Type, Authorization"}
JsonHeaders == CorsHeaders \cup {"Content-Type: application/json"}

\* a response without the CORS headers
HttpResponseBare(status, body) ==
  [status |-> status, body |-> body, headers |-> {"Content-Type: application/json"}]

\* corsResponse(body, status)
HttpResponse(status, body) == [status |-> status, body |-> body, headers |-> JsonHeaders]
ErrorBody(text) == [kind |-> "error", error |-> text]
FailureBody(text) == [kind |-> "failure", error |-> text, details |-> "stack"]
ToolsBody(tools) == [kind |-> "tools", tools |-> tools, count |-> LengthOf(tools)]
CallBody(result, isError) == [kind |-> "call", result |-> result, isError |-> isError]

\* the catch block of the tools handler
ToolsCatch(text) == HttpResponse(500, FailureBody(text))

\* a tools handler without the JSON-RPC error check
ToolsErrorIgnored(mcpData) == FALSE

\* the JSON-RPC error check of the tools handler: TRUE when it throws
ToolsErrorCheck(mcpData) == Truthy(Prop(mcpData, "error"))

ToolsOutcome(r) ==
  IF r.net = "fail" THEN ToolsCatch(FetchFailedText)
  ELSE IF ~IsOk(r.status)
  THEN ToolsCatch(<<"MCP gateway error: ", StatusText(r.status), " - ">> \o r.body)
  ELSE LET d == ToolsDecode(r.ct, r.body)
       IN  IF ~d.ok THEN ToolsCatch(d.err)
           ELSE IF PropThrows(d.v) THEN ToolsCatch(TypeErrorText)
           ELSE IF ToolsErrorCheck(d.v)
           THEN ToolsCatch(<<"MCP error: ">>
                           \o TemplateText(ErrorMessageOf(Prop(d.v, "error"))))
           ELSE LET tools == ToolsOf(d.v)
                IN  \* tools.map(...) of a non-empty non-array throws
                    IF tools.t = "string" THEN ToolsCatch(TypeErrorText)
                    ELSE HttpResponse(200, ToolsBody(tools))

(***************************************************************************)
(* POST /api/mcp/call/:id after the registry lookup                        *)
(***************************************************************************)
\* the envelope decode of the call handler
CallDecode(contentType, toks) ==
  IF IsSse(contentType, toks)
  THEN LET dm == DataMatch(toks)
       IN  IF dm.ok
           THEN LET p == JSONparse(dm.group)
                IN  [ok |-> p.ok, v |-> p.v, err |-> SyntaxErrorText]
           ELSE [ok |-> FALSE, v |-> JUndef, err |-> NoSseDataText]
  ELSE LET p == JSONparse(toks)
       IN  [ok |-> p.ok, v |-> p.v, err |-> SyntaxErrorText]

\* a call handler whose catch block answers as the tools handler's does
CallCatchAsFailure(text) == HttpResponse(500, FailureBody(text))

\* the catch block of the call handler: 200 with the isError flag
CallCatch(text) ==
  HttpResponse(200, CallBody(JObj("error" :> JStr(text)), TRUE))

\* a call handler that throws the JSON-RPC error as the tools handler does
CallErrorThrown(error) ==
  HttpResponse(200, CallBody(JObj("error" :> JStr(<<"MCP error: ">>
                                     \o TemplateText(ErrorMessageOf(error)))), TRUE))

\* the JSON-RPC error branch of the call handler
CallErrorResponse(error) ==
  HttpResponse(200, CallBody(JObj("error" :> ErrorMessageOf(error)), TRUE))

CallOutcome(r) ==
  IF r.net = "fail" THEN CallCatch(FetchFailedText)
  ELSE IF ~IsOk(r.status)
  THEN CallCatch(<<"MCP gateway error: ", StatusText(r.status), " - ">> \o r.body)
  ELSE LET d == CallDecode(r.ct, r.body)
       IN  IF ~d.ok THEN CallCatch(d.err)
           ELSE IF PropThrows(d.v) THEN CallCatch(TypeErrorText)
           ELSE IF Truthy(Prop(d.v, "error"))
           THEN CallErrorResponse(Prop(d.v, "error"))
           ELSE HttpResponse(200, CallBody(Prop(d.v, "result"), FALSE))

(***************************************************************************)
(* initializeMcpSession: the decode of the initialize response             *)
(***************************************************************************)
\* a decode that parses the whole body whatever its framing
InitDecodeWholeBody(contentType, toks) ==
  LET p == JSONparse(toks)
  IN  [ok |-> p.ok, v |-> p.v, err |-> SyntaxErrorText]

\* an SSE body without a data line leaves initData undefined, without a throw
InitDecode(contentType, toks) ==
  IF IsSse(contentType, toks)
  THEN LET dm == DataMatch(toks)
       IN  IF dm.ok
           THEN LET p == JSONparse(dm.group)
                IN  [ok |-> p.ok, v |-> p.v, err |-> SyntaxErrorText]
           ELSE [ok |-> TRUE, v |-> JUndef, err |-> <<>>]
  ELSE LET p == JSONparse(toks)
       IN  [ok |-> p.ok, v |-> p.v, err |-> SyntaxErrorText]

\* an initialize step that does not touch initData.result
InitLogSilent(initData) == FALSE

\* JSON.stringify(initData.result).substring(0, 200) throws a TypeError when
\* initData is null or undefined, or when it has no result to serialise
InitLogThrows(initData) ==
  \/ PropThrows(initData)
  \/ Prop(initData, "result").t = "undefined"

\* headers.get('Mcp-Session-Id') || ''
SessionIdOf(header) == IF header = "<none>" THEN "" ELSE header

(***************************************************************************)
(* Bounds and input domains                                                *)
(***************************************************************************)
\* sandboxes the provisioner hands out in one run
MaxSandboxes == 2

\* worker invocations that may be suspended at the same time
Tasks == {1, 2}

\* (sandbox as any).id || Date.now().toString(): the id of a sandbox, or the
\* clock reading when the sandbox has none
NowKey == "1700000000000"
\* the ids the provisioner gives its sandboxes, and the keys requests name
SandboxIds == {"sbx1"}
Keys == {"sbx1", "sbx2"}

\* JSON-RPC response envelopes, serialised on one line
Envelopes ==
  { <<"{", "result:", "{", "tools:", "[T]", "}", "}">>,
    <<"{", "result:", "{", "}", "}">>,
    <<"{", "}">>,
    <<"{", "error:", "{", "message:", "'X'", "}", "}">>,
    <<"{", "error:", "{", "message:", "''", "}", "}">>,
    <<"{", "error:", "{", "}", "}">>,
    <<"{", "error:", "null", "result:", "{", "tools:", "[T]", "}", "}">>,
    <<"{", "result:", "'a<LS>b'", "}">>,
    <<"{", "result:", "{", "tools:", "'X'", "}", "}">>,
    <<"{", "result:", "{", "tools:", "[]", "}", "}">>,
    <<"{", "result:", "{", "tools:", "{", "}", "}", "}">>,
    <<"{", "result:", "null", "}">>,
    <<"{", "error:", "'X'", "}">>,
    <<"{", "error:", "{", "message:", "'X'", "}", "result:", "{", "}", "}">>,
    <<"null">> }

\* the envelope in SSE framing: "event: message\ndata: {...}\n\n"
SseFrame(e) == <<"event: message", "<NL>", "data:", " ">> \o e \o <<"<NL>", "<NL>">>

\* an envelope printed over several lines
Pretty == <<"{", "<NL>", " ", "result:", "{", "}", "<NL>", "}">>

Malformed == {<<"event: message", "<NL>">>, <<"junk">>, <<>>}

RemoteBodies ==
  Envelopes \cup {SseFrame(e) : e \in Envelopes} \cup {Pretty} \cup Malformed

ContentTypes == {"application/json", "text/event-stream", ""}

\* what a failing gateway answers
GoneText == <<"Session not found">>
ErrorBodies == {GoneText, <<"junk">>}

ToolsEnvelope == <<"{", "result:", "{", "tools:", "[T]", "}", "}">>
\* a result whose text holds a raw U+2028
TextEnvelope == <<"{", "result:", "'a<LS>b'", "}">>
ErrorEnvelope == <<"{", "error:", "{", "message:", "'X'", "}", "}">>

\* the behaviours of the remote endpoint on a tools/list or tools/call that
\* the worker is run against: connection failure, non-2xx, success in either
\* framing, JSON-RPC error, undecodable bodies
RemoteOutcomes ==
  {RemoteFail}
    \cup {RemoteResp(404, "", GoneText, "<none>"), RemoteResp(500, "", <<"junk">>, "<none>")}
    \cup {RemoteResp(200, "application/json", b, "<none>") :
            b \in {ToolsEnvelope, ErrorEnvelope, <<"{", "}">>, <<"junk">>}}
    \cup {RemoteResp(200, "text/event-stream", b, "<none>") :
            b \in {SseFrame(ToolsEnvelope), SseFrame(ErrorEnvelope), <<"event: message", "<NL>">>}}

\* ... on the initialize request, which also carries the session header
InitializeOutcomes ==
  {RemoteFail}
    \cup {RemoteResp(404, "", GoneText, "<none>")}
    \cup {RemoteResp(200, "application/json", b, sid) :
            b \in {ToolsEnvelope, TextEnvelope, ErrorEnvelope, <<"junk">>},
            sid \in {"<none>", "sA"}}
    \cup {RemoteResp(200, ct, b, sid) :
            ct \in {"text/event-stream", ""},
            b \in {SseFrame(ToolsEnvelope), SseFrame(TextEnvelope),
                   <<"event: message", "<NL>">>},
            sid \in {"<none>", "sA"}}

\* ... on the notification: the body is not read
NotifyOutcomes ==
  {RemoteFail} \cup {RemoteResp(st, "", <<>>, "<none>") : st \in {202, 500}}

\* request bodies of POST /api/mcp/call/:id
CallRequests == {"toolName", "noToolName", "unparsable"}
\* request bodies of POST /api/mcp/init: {apiKey}, {apiKey, mcpServers}, {}
\* and a body that is not JSON
InitRequests == {"apiKey", "apiKeyAndServers", "noApiKey", "unparsable"}

\* the servers the provisioner is asked for
DefaultServers == "{duckduckgo: {}, arxiv: {storagePath: '/'}}"
GivenServers == "{custom: {}}"

\* a handler that passes the body's mcpServers on as it is
ServersOfBody(req) == IF req = "apiKeyAndServers" THEN GivenServers ELSE "undefined"

\* mcpServers || {duckduckgo: {}, arxiv: {storagePath: '/'}}
ServersOf(req) == IF req = "apiKeyAndServers" THEN GivenServers ELSE DefaultServers

(***************************************************************************)
(* State                                                                   *)
(***************************************************************************)
VARIABLES
  sandboxCache,  \* the registry: key -> entry
  nextSandbox,   \* sandboxes created so far
  task,          \* the suspended invocations of fetch(request)
  out,           \* the HTTP response returned by the last step, if any
  wire,          \* the requests the last step sent to the remote endpoint
  envl,          \* protocol client alone: the body the remote answers with
  answers,       \* protocol client alone: the handlers' responses to it
  mcpServerRef,  \* useMcpTools: the ref {sandboxId, backendUrl}, or null
  isStarting,    \* useMcpTools: state
  isReady,       \* useMcpTools: state
  error,         \* useMcpTools: state, "" for null
  tools,         \* useMcpTools: state, the sandbox the tools were listed from
  apiKeys,       \* localStorage 'apilab_api_keys'
  issued,        \* the backend URL that handed out each sandbox id
  fe,            \* useMcpTools: the suspended async functions
  fout,          \* useMcpTools: how the last finished function ended
  app,           \* App: its own instance of useMcpTools
  messages,      \* useApiChat: state
  isLoading,     \* useApiChat: state
  chatError,     \* useApiChat: state error, "" for null
  toolExecutions,\* useApiChat: state
  hs,            \* useApiChat: the suspended handleSubmit
  mcpToken,      \* logging alone: the bearer token of the session
  logged         \* logging alone: the lines written to the console

workerVars == <<sandboxCache, nextSandbox, task, out, wire>>
clientVars == <<envl, answers>>
frontVars == <<mcpServerRef, isStarting, isReady, error, tools, apiKeys, issued, fe, fout>>
chatVars == <<messages, isLoading, chatError, toolExecutions, hs>>
logVars == <<mcpToken, logged>>
vars == <<sandboxCache, nextSandbox, task, out, wire, envl, answers,
          mcpServerRef, isStarting, isReady, error, tools, apiKeys, issued, fe, fout,
          app, messages, isLoading, chatError, toolExecutions, hs, mcpToken, logged>>

\* notified is history: the status of the notification of the negotiation
\* that made the entry
NoRemote == [net |-> "none", status |-> 0, ct |-> "", body |-> <<>>, sid |-> "<none>"]

NoEntry ==
  [present |-> FALSE, mcpUrl |-> 0, mcpToken |-> 0, sessionId |-> "",
   initialized |-> FALSE, notified |-> 0]

Idle ==
  [route |-> "idle", pc |-> "idle", key |-> "", cached |-> NoEntry,
   sandbox |-> 0, sessionId |-> "", notified |-> 0,
   \* history: requests sent so far, and the initialize response received
   nInitialize |-> 0, nNotify |-> 0, initialize |-> NoRemote]

NoOut ==
  [route |-> "none", key |-> "", req |-> "", found |-> FALSE, remote |-> NoRemote,
   resp |-> HttpResponse(0, ErrorBody(<<>>)), neg |-> Idle]

\* the response of one invocation, with what it was given
Out(route, key, req, found, remote, resp, neg) ==
  [route |-> route, key |-> key, req |-> req, found |-> found, remote |-> remote,
   resp |-> resp, neg |-> neg]

McpRequest(method, url, token, sid) ==
  [method |-> method, url |-> url, token |-> token, sid |-> sid]

\* Sandbox.create({apiKey, mcp, timeoutMs}), for the request body it serves
CreateRequest(req, mcp) == [method |-> "Sandbox.create", body |-> req, mcp |-> mcp]

WorkerInit ==
  /\ sandboxCache = [k \in Keys |-> NoEntry]
  /\ nextSandbox = 0
  /\ task = [t \in Tasks |-> Idle]
  /\ out = NoOut
  /\ wire = <<>>

(***************************************************************************)
(* POST /api/mcp/init                                                      *)
(***************************************************************************)
\* the catch block of the init handler
InitCatch(text) == HttpResponse(500, FailureBody(text))

\* request.json(), the apiKey check, and the call of Sandbox.create
InitStart(t, req) ==
  /\ task[t].route = "idle"
  /\ wire' = IF req \in {"apiKey", "apiKeyAndServers"}
             THEN <<CreateRequest(req, ServersOf(req))>> ELSE <<>>
  /\ UNCHANGED <<sandboxCache, nextSandbox>>
  /\ CASE req = "unparsable" ->
            /\ out' = Out("init", "", req, FALSE, NoRemote, InitCatch(SyntaxErrorText), Idle)
            /\ UNCHANGED task
       [] req = "noApiKey" ->
            /\ out' = Out("init", "", req, FALSE, NoRemote,
                          HttpResponse(400, ErrorBody(<<"E2B API key is required">>)), Idle)
            /\ UNCHANGED task
       [] OTHER ->
            /\ out' = NoOut
            /\ task' = [task EXCEPT ![t] = [Idle EXCEPT !.route = "init", !.pc = "create"]]

\* Sandbox.create / getMcpToken reject
ProvisionFails(t) ==
  /\ task[t].pc = "create"
  /\ out' = Out("init", "", "apiKey", FALSE, NoRemote,
                InitCatch(<<"sandbox creation failed">>), task[t])
  /\ task' = [task EXCEPT ![t] = Idle]
  /\ wire' = <<>>
  /\ UNCHANGED <<sandboxCache, nextSandbox>>

\* (sandbox as any).id || Date.now().toString()
SandboxKey(id) == IF id # "" THEN id ELSE NowKey

\* Sandbox.create and getMcpToken resolve; the initialize request is sent
Provision(t, id) ==
  /\ task[t].pc = "create"
  /\ nextSandbox < MaxSandboxes
  /\ nextSandbox' = nextSandbox + 1
  /\ task' = [task EXCEPT ![t] =
                [@ EXCEPT !.pc = "initialize", !.sandbox = nextSandbox + 1,
                          !.key = SandboxKey(id), !.nInitialize = @ + 1]]
  /\ wire' = <<McpRequest("initialize", nextSandbox + 1, nextSandbox + 1, "<none>")>>
  /\ out' = NoOut
  /\ UNCHANGED sandboxCache

\* the initialize response (or the failure of its fetch) arrives
InitializeFailure(r) ==
  IF r.net = "fail" THEN [failed |-> TRUE, text |-> FetchFailedText]
  ELSE IF ~IsOk(r.status)
  THEN [failed |-> TRUE,
        text |-> <<"MCP initialize failed: ", StatusText(r.status), " - ">> \o r.body]
  ELSE LET d == InitDecode(r.ct, r.body)
       IN  IF ~d.ok THEN [failed |-> TRUE, text |-> d.err]
           ELSE IF InitLogThrows(d.v) THEN [failed |-> TRUE, text |-> TypeErrorText]
           ELSE [failed |-> FALSE, text |-> <<>>]

\* a notification that never carries the header
NotifyHeaderAbsent(sessionId) == "<none>"

\* ...(sessionId && {'Mcp-Session-Id': sessionId})
NotifyHeader(sessionId) == IF sessionId # "" THEN sessionId ELSE "<none>"

InitializeResponse(t, r) ==
  /\ task[t].pc = "initialize"
  /\ UNCHANGED <<sandboxCache, nextSandbox>>
  /\ LET f == InitializeFailure(r)
     IN  IF f.failed
         THEN /\ out' = Out("init", task[t].key, "apiKey", FALSE, r, InitCatch(f.text), task[t])
              /\ task' = [task EXCEPT ![t] = Idle]
              /\ wire' = <<>>
         ELSE /\ out' = NoOut
              /\ task' = [task EXCEPT ![t] =
                            [@ EXCEPT !.pc = "notify", !.sessionId = SessionIdOf(r.sid),
                                      !.nNotify = @ + 1, !.initialize = r]]
              /\ wire' = <<McpRequest("notifications/initialized", task[t].sandbox,
                                      task[t].sandbox, NotifyHeader(SessionIdOf(r.sid)))>>

\* the notification's fetch settles; its status is only logged
NotifyResponse(t, r) ==
  /\ task[t].pc = "notify"
  /\ wire' = <<>>
  /\ UNCHANGED <<sandboxCache, nextSandbox>>
  /\ IF r.net = "fail"
     THEN /\ out' = Out("init", task[t].key, "apiKey", FALSE, r,
                        InitCatch(FetchFailedText), task[t])
          /\ task' = [task EXCEPT ![t] = Idle]
     ELSE /\ out' = NoOut
          /\ task' = [task EXCEPT ![t] = [@ EXCEPT !.pc = "delay", !.notified = r.status]]

\* an entry put together from two negotiations
CacheEntryMixed(tk) ==
  [present |-> TRUE, mcpUrl |-> tk.sandbox,
   mcpToken |-> IF tk.sandbox > 1 THEN tk.sandbox - 1 ELSE tk.sandbox,
   sessionId |-> tk.sessionId, initialized |-> TRUE, notified |-> tk.notified]

\* sandboxCache.set(sandboxId, {...})
CacheEntry(tk) ==
  [present |-> TRUE, mcpUrl |-> tk.sandbox, mcpToken |-> tk.sandbox,
   sessionId |-> tk.sessionId, initialized |-> TRUE, notified |-> tk.notified]

InitBody(tk) ==
  [kind |-> "init", sandboxId |-> tk.key, mcpUrl |-> tk.sandbox, mcpToken |-> tk.sandbox]

\* the 100 ms timer fires: the session is stored and the response returned
DelayDone(t) ==
  /\ task[t].pc = "delay"
  /\ sandboxCache' = [sandboxCache EXCEPT ![task[t].key] = CacheEntry(task[t])]
  /\ out' = Out("init", task[t].key, "apiKey", FALSE, NoRemote,
                HttpResponse(200, InitBody(task[t])), task[t])
  /\ task' = [task EXCEPT ![t] = Idle]
  /\ wire' = <<>>
  /\ UNCHANGED nextSandbox

(***************************************************************************)
(* OPTIONS, /health and the final 404                                      *)
(***************************************************************************)
\* paths an OPTIONS request may name: the preflight of each route, and others
PreflightPaths == {"/api/mcp/init", "/api/mcp/call/sbx1", "/other"}

\* new Response(null, {headers}): status 200, no body
PreflightResponse == [status |-> 200, body |-> [kind |-> "null"], headers |-> CorsHeaders]

\* request.method === 'OPTIONS', tested before any route
Preflight(t, path) ==
  /\ task[t].route = "idle"
  /\ out' = Out("options", "", path, FALSE, NoRemote, PreflightResponse, Idle)
  /\ wire' = <<>>
  /\ UNCHANGED <<sandboxCache, nextSandbox, task>>

\* url.pathname === '/health'
Health(t) ==
  /\ task[t].route = "idle"
  /\ out' = Out("health", "", "", FALSE, NoRemote,
                HttpResponse(200, [kind |-> "health", status |-> "ok"]), Idle)
  /\ wire' = <<>>
  /\ UNCHANGED <<sandboxCache, nextSandbox, task>>

\* no route matches the method and path
NoRoute(t) ==
  /\ task[t].route = "idle"
  /\ out' = Out("other", "", "", FALSE, NoRemote,
                HttpResponse(404, ErrorBody(<<"Not found">>)), Idle)
  /\ wire' = <<>>
  /\ UNCHANGED <<sandboxCache, nextSandbox, task>>

(***************************************************************************)
(* GET /api/mcp/sandbox/:id                                                *)
(***************************************************************************)
\* what (await cached.sandbox.isRunning?.()) settles to
RunningOutcomes == {"true", "false", "undefined", "reject"}

InfoBody(key, running, url) ==
  [kind |-> "info", sandboxId |-> key, isRunning |-> running, url |-> url]

\* a rejection of isRunning() leaves fetch() uncaught: the runtime's error page
Uncaught == [status |-> 500, body |-> [kind |-> "uncaught"], headers |-> {}]

\* (await cached.sandbox.isRunning?.()) || false, and the response
InfoOutcome(tk, running) ==
  IF running = "reject" THEN Uncaught
  ELSE HttpResponse(200, InfoBody(tk.key, running = "true", tk.cached.mcpUrl))

(***************************************************************************)
(* GET /api/mcp/tools/:id                                                  *)
(***************************************************************************)
NotFound == HttpResponse(404, ErrorBody(SandboxNotFoundText))

InfoStart(t, k) ==
  /\ task[t].route = "idle"
  /\ UNCHANGED <<sandboxCache, nextSandbox>>
  /\ wire' = <<>>
  /\ LET cached == sandboxCache[k]
     IN  IF ~cached.present
         THEN /\ out' = Out("info", k, "", FALSE, NoRemote, NotFound, Idle)
              /\ UNCHANGED task
         ELSE /\ out' = NoOut
              /\ task' = [task EXCEPT ![t] =
                            [Idle EXCEPT !.route = "info", !.pc = "running", !.key = k,
                                         !.cached = cached]]

InfoResponse(t, running) ==
  /\ task[t].route = "info" /\ task[t].pc = "running"
  /\ out' = Out("info", task[t].key, running, TRUE, NoRemote, InfoOutcome(task[t], running),
                task[t])
  /\ task' = [task EXCEPT ![t] = Idle]
  /\ wire' = <<>>
  /\ UNCHANGED <<sandboxCache, nextSandbox>>

ToolsStart(t, k) ==
  /\ task[t].route = "idle"
  /\ UNCHANGED <<sandboxCache, nextSandbox>>
  /\ LET cached == sandboxCache[k]
     IN  IF ~cached.present
         THEN /\ out' = Out("tools", k, "", FALSE, NoRemote, NotFound, Idle)
              /\ wire' = <<>>
              /\ UNCHANGED task
         ELSE /\ out' = NoOut
              /\ wire' = <<McpRequest("tools/list", cached.mcpUrl, cached.mcpToken,
                                      cached.sessionId)>>
              /\ task' = [task EXCEPT ![t] =
                            [Idle EXCEPT !.route = "tools", !.pc = "fetch", !.key = k,
                                         !.cached = cached]]

\* a tools handler that drops the entry when the listing fails
ToolsResponseEvicting(t, r) ==
  /\ task[t].route = "tools" /\ task[t].pc = "fetch"
  /\ out' = Out("tools", task[t].key, "", TRUE, r, ToolsOutcome(r), task[t])
  /\ task' = [task EXCEPT ![t] = Idle]
  /\ wire' = <<>>
  /\ sandboxCache' = IF ToolsOutcome(r).status = 200 THEN sandboxCache
                     ELSE [sandboxCache EXCEPT ![task[t].key] = NoEntry]
  /\ UNCHANGED nextSandbox

ToolsResponse(t, r) ==
  /\ task[t].route = "tools" /\ task[t].pc = "fetch"
  /\ out' = Out("tools", task[t].key, "", TRUE, r, ToolsOutcome(r), task[t])
  /\ task' = [task EXCEPT ![t] = Idle]
  /\ wire' = <<>>
  /\ UNCHANGED <<sandboxCache, nextSandbox>>

\* a call handler that reads the body before it looks the key up
CallEntryBodyFirst(cached, req) ==
  IF req = "unparsable"
  THEN [respond |-> TRUE,
        resp |-> HttpResponse(200, CallBody(JObj("error" :> JStr(SyntaxErrorText)), TRUE))]
  ELSE IF req = "noToolName"
  THEN [respond |-> TRUE, resp |-> HttpResponse(400, ErrorBody(<<"toolName is required">>))]
  ELSE IF ~cached.present THEN [respond |-> TRUE, resp |-> NotFound]
  ELSE [respond |-> FALSE, resp |-> NotFound]

(***************************************************************************)
(* POST /api/mcp/call/:id                                                  *)
(***************************************************************************)
\* the registry lookup, then request.json() and the toolName check
CallEntry(cached, req) ==
  IF ~cached.present THEN [respond |-> TRUE, resp |-> NotFound]
  ELSE IF req = "unparsable" THEN [respond |-> TRUE, resp |-> CallCatch(SyntaxErrorText)]
  ELSE IF req = "noToolName"
  THEN [respond |-> TRUE, resp |-> HttpResponse(400, ErrorBody(<<"toolName is required">>))]
  ELSE [respond |-> FALSE, resp |-> NotFound]

\* the request arrives: the lookup, and for a key that is found the wait for
\* request.json(); req is the body the request will turn out to hold
CallStart(t, k, req) ==
  /\ task[t].route = "idle"
  /\ UNCHANGED <<sandboxCache, nextSandbox>>
  /\ wire' = <<>>
  /\ LET cached == sandboxCache[k]
         e == CallEntry(cached, req)
     IN  IF ~cached.present
         THEN /\ out' = Out("call", k, req, FALSE, NoRemote, e.resp, Idle)
              /\ UNCHANGED task
         ELSE /\ out' = NoOut
              /\ task' = [task EXCEPT ![t] =
                            [Idle EXCEPT !.route = "call", !.pc = "body", !.key = k,
                                         !.cached = cached]]

\* a handler that looks the key up again when it sends the request
CallSessionCurrent(cached, current) == current

\* the session a tools/call request is sent with: the entry read on arrival
CallSession(cached, current) == cached

\* request.json() settles: the toolName check, then the tools/call request
CallBodyRead(t, req) ==
  /\ task[t].route = "call" /\ task[t].pc = "body"
  /\ UNCHANGED <<sandboxCache, nextSandbox>>
  /\ LET e == CallEntry(task[t].cached, req)
         session == CallSession(task[t].cached, sandboxCache[task[t].key])
     IN  IF e.respond
         THEN /\ out' = Out("call", task[t].key, req, TRUE, NoRemote, e.resp, task[t])
              /\ wire' = <<>>
              /\ task' = [task EXCEPT ![t] = Idle]
         ELSE /\ out' = NoOut
              /\ wire' = <<McpRequest("tools/call", session.mcpUrl, session.mcpToken,
                                      session.sessionId)>>
              /\ task' = [task EXCEPT ![t] = [@ EXCEPT !.pc = "fetch"]]

\* a call handler that drops the entry when the remote answers not-found
CallResponseEvicting(t, r) ==
  /\ task[t].route = "call" /\ task[t].pc = "fetch"
  /\ out' = Out("call", task[t].key, "toolName", TRUE, r, CallOutcome(r), task[t])
  /\ task' = [task EXCEPT ![t] = Idle]
  /\ wire' = <<>>
  /\ sandboxCache' = IF r.status = 404 THEN [sandboxCache EXCEPT ![task[t].key] = NoEntry]
                     ELSE sandboxCache
  /\ UNCHANGED nextSandbox

CallResponse(t, r) ==
  /\ task[t].route = "call" /\ task[t].pc = "fetch"
  /\ out' = Out("call", task[t].key, "toolName", TRUE, r, CallOutcome(r), task[t])
  /\ task' = [task EXCEPT ![t] = Idle]
  /\ wire' = <<>>
  /\ UNCHANGED <<sandboxCache, nextSandbox>>

(***************************************************************************)
(* useMcpTools (frontend): startHttpClient and callTool                    *)
(***************************************************************************)
\* sandbox ids the backend hands out in one run
MaxBackendSandboxes == 2

\* async functions of the hook that may be suspended at the same time
FrontTasks == {1, 2}

NullRef == [set |-> FALSE, sandboxId |-> 0, backendUrl |-> 0]
ServerRef(sandboxId, backendUrl) ==
  [set |-> TRUE, sandboxId |-> sandboxId, backendUrl |-> backendUrl]

\* a response of the backend as the hook reads it: status, the error member
\* of its body, the sandboxId of an init response, the isError of a call
BackendFail == [net |-> "fail", status |-> 0, error |-> "", sandboxId |-> 0, isError |-> FALSE]
BackendResp(status, err, sandboxId, isError) ==
  [net |-> "ok", status |-> status, error |-> err, sandboxId |-> sandboxId,
   isError |-> isError]
NoBackend == [net |-> "none", status |-> 0, error |-> "", sandboxId |-> 0, isError |-> FALSE]

\* POST /api/mcp/call/:id as the worker answers it
BackendCallResponses ==
  {BackendFail,
   BackendResp(200, "", 0, FALSE), BackendResp(200, "", 0, TRUE),
   BackendResp(404, "Sandbox not found", 0, FALSE),
   BackendResp(404, "Not found", 0, FALSE),
   BackendResp(400, "toolName is required", 0, FALSE),
   BackendResp(500, "not json", 0, FALSE)}

\* POST /api/mcp/init, when it does not answer with a new sandbox
BackendInitFailures ==
  {BackendFail, BackendResp(500, "sandbox creation failed", 0, FALSE),
   BackendResp(400, "E2B API key is required", 0, FALSE)}

\* GET /api/mcp/tools/:id
BackendToolsResponses ==
  {BackendFail, BackendResp(200, "", 0, FALSE),
   BackendResp(404, "Sandbox not found", 0, FALSE),
   BackendResp(500, "MCP error", 0, FALSE)}

NoError == [tag |-> "", status |-> 0]

FrontIdleTask ==
  [kind |-> "idle", pc |-> "idle", sandboxId |-> 0, backendUrl |-> 0, target |-> NullRef,
   \* history: runs of startHttpClient, calls sent, and the responses to them
   nStart |-> 0, nCalls |-> 0, nRetry |-> 0, first |-> NoBackend, retry |-> NoBackend]

NoFout == [kind |-> "none", how |-> "", error |-> NoError, result |-> NoBackend,
           tk |-> FrontIdleTask]
Fout(kind, how, err, result, tk) ==
  [kind |-> kind, how |-> how, error |-> err, result |-> result, tk |-> tk]

FrontIdle ==
  /\ mcpServerRef = NullRef
  /\ isStarting = FALSE
  /\ isReady = FALSE
  /\ error = ""
  /\ tools = 0
  /\ apiKeys = [e2b |-> FALSE, backendUrl |-> 0]
  /\ issued = <<>>
  /\ fe = [f \in FrontTasks |-> FrontIdleTask]
  /\ fout = NoFout

\* what localStorage holds: the keys may be missing
FrontInit ==
  /\ mcpServerRef = NullRef
  /\ isStarting = FALSE
  /\ isReady = FALSE
  /\ error = ""
  /\ tools = 0
  /\ apiKeys \in [e2b : BOOLEAN, backendUrl : {0, 1}]
  /\ issued = <<>>
  /\ fe = [f \in FrontTasks |-> FrontIdleTask]
  /\ fout = NoFout

\* startHttpClient has returned to the function tk that awaited it; ref is
\* mcpServerRef.current at that moment.  callTool goes on to its retry.
AfterStart(f, tk, ref) ==
  IF tk.kind = "call"
  THEN IF ref.set
       THEN /\ fe' = [fe EXCEPT ![f] =
                        [tk EXCEPT !.pc = "retry", !.nRetry = @ + 1, !.target = ref]]
            /\ fout' = NoFout
       ELSE /\ fe' = [fe EXCEPT ![f] = FrontIdleTask]
            /\ fout' = Fout("call", "throw",
                            [tag |-> "Failed to reinitialize MCP server", status |-> 0],
                            NoBackend, tk)
  ELSE /\ fe' = [fe EXCEPT ![f] = FrontIdleTask]
       /\ fout' = Fout(tk.kind, "done", NoError, NoBackend, tk)

\* the catch block of startHttpClient
StartCatch(f, tk, tag, ref) ==
  /\ error' = tag
  /\ isStarting' = FALSE
  /\ isReady' = FALSE
  /\ mcpServerRef' = ref
  /\ AfterStart(f, tk, ref)

\* startHttpClient up to its first await; ref is mcpServerRef.current as the
\* caller left it
StartHttpClient(f, tk, ref) ==
  /\ UNCHANGED <<tools, apiKeys, issued>>
  /\ IF ~apiKeys.e2b
     THEN StartCatch(f, tk, "E2B API key not found", ref)
     ELSE IF apiKeys.backendUrl = 0
     THEN StartCatch(f, tk, "Backend URL not configured", ref)
     ELSE /\ isStarting' = TRUE
          /\ error' = ""
          /\ isReady' = FALSE
          /\ mcpServerRef' = ref
          /\ fe' = [fe EXCEPT ![f] =
                      [tk EXCEPT !.pc = "init", !.backendUrl = apiKeys.backendUrl]]
          /\ fout' = NoFout

\* startHttpClient called on mount or from the UI
StartBegin(f) ==
  /\ fe[f].kind = "idle"
  /\ StartHttpClient(f, [FrontIdleTask EXCEPT !.kind = "start", !.nStart = 1], mcpServerRef)

\* POST /api/mcp/init answers with a new sandbox: the tools are fetched
StartInitOk(f) ==
  /\ fe[f].pc = "init"
  /\ Len(issued) < MaxBackendSandboxes
  /\ issued' = Append(issued, fe[f].backendUrl)
  /\ fe' = [fe EXCEPT ![f] = [@ EXCEPT !.pc = "tools", !.sandboxId = Len(issued) + 1]]
  /\ fout' = NoFout
  /\ UNCHANGED <<mcpServerRef, isStarting, isReady, error, tools, apiKeys>>

\* POST /api/mcp/init fails
StartInitFails(f, r) ==
  /\ fe[f].pc = "init"
  /\ UNCHANGED <<tools, apiKeys, issued>>
  /\ StartCatch(f, fe[f], "Backend API error", mcpServerRef)

\* GET /api/mcp/tools/:id settles
StartToolsResponse(f, r) ==
  /\ fe[f].pc = "tools"
  /\ UNCHANGED <<apiKeys, issued>>
  /\ IF r.net = "ok" /\ IsOk(r.status)
     THEN /\ mcpServerRef' = ServerRef(fe[f].sandboxId, fe[f].backendUrl)
          /\ tools' = fe[f].sandboxId
          /\ isReady' = TRUE
          /\ isStarting' = FALSE
          /\ UNCHANGED error
          /\ AfterStart(f, fe[f], ServerRef(fe[f].sandboxId, fe[f].backendUrl))
     ELSE /\ UNCHANGED tools
          /\ StartCatch(f, fe[f], "Backend tools error", mcpServerRef)

\* a test of the status alone
IsNotFoundStatus(r) == r.status = 404

\* response.status === 404 && errorData.error === 'Sandbox not found'
IsSandboxNotFound(r) == r.status = 404 /\ r.error = "Sandbox not found"

\* the error thrown for a failed first call
CallError(status) == [tag |-> "Backend tool call error", status |-> status]

\* a retry whose failure surfaces the error of the first call
RetryErrorIsFirst(status) == CallError(404)

\* the error thrown for a failed retry
RetryError(status) == [tag |-> "Backend tool call error after reinit", status |-> status]

\* what a rejected fetch throws
NetworkError == [tag |-> "fetch failed", status |-> 0]

\* callTool up to its fetch
CallToolBegin(f) ==
  /\ fe[f].kind = "idle"
  /\ UNCHANGED <<mcpServerRef, isStarting, isReady, error, tools, apiKeys, issued>>
  /\ IF ~mcpServerRef.set
     THEN /\ fout' = Fout("call", "throw", [tag |-> "MCP server not initialized", status |-> 0],
                          NoBackend, FrontIdleTask)
          /\ UNCHANGED fe
     ELSE /\ fe' = [fe EXCEPT ![f] =
                      [FrontIdleTask EXCEPT !.kind = "call", !.pc = "call",
                                            !.target = mcpServerRef, !.nCalls = 1]]
          /\ fout' = NoFout

\* the first call settles
CallToolResponse(f, r) ==
  /\ fe[f].pc = "call"
  /\ LET tk == [fe[f] EXCEPT !.first = r]
     IN  IF r.net = "fail"
         THEN /\ fe' = [fe EXCEPT ![f] = FrontIdleTask]
              /\ fout' = Fout("call", "throw", NetworkError, r, tk)
              /\ UNCHANGED <<mcpServerRef, isStarting, isReady, error, tools, apiKeys, issued>>
         ELSE IF IsOk(r.status)
         THEN /\ fe' = [fe EXCEPT ![f] = FrontIdleTask]
              /\ fout' = Fout("call", "return", NoError, r, tk)
              /\ UNCHANGED <<mcpServerRef, isStarting, isReady, error, tools, apiKeys, issued>>
         ELSE IF IsSandboxNotFound(r)
         THEN \* mcpServerRef.current = null; setIsReady(false); await startHttpClient()
              StartHttpClient(f, [tk EXCEPT !.nStart = @ + 1], NullRef)
         ELSE /\ fe' = [fe EXCEPT ![f] = FrontIdleTask]
              /\ fout' = Fout("call", "throw", CallError(r.status), r, tk)
              /\ UNCHANGED <<mcpServerRef, isStarting, isReady, error, tools, apiKeys, issued>>

\* the retried call settles
RetryResponse(f, r) ==
  /\ fe[f].pc = "retry"
  /\ UNCHANGED <<mcpServerRef, isStarting, isReady, error, tools, apiKeys, issued>>
  /\ fe' = [fe EXCEPT ![f] = FrontIdleTask]
  /\ LET tk == [fe[f] EXCEPT !.retry = r]
     IN  IF r.net = "fail" THEN fout' = Fout("call", "throw", NetworkError, r, tk)
         ELSE IF ~IsOk(r.status)
         THEN fout' = Fout("call", "throw", RetryError(r.status), r, tk)
         ELSE fout' = Fout("call", "return", NoError, r, tk)

\* a restart that clears the ref and leaves isReady as it is
RestartKeepsReady(f) ==
  /\ fe[f].kind = "idle"
  /\ isStarting' = FALSE
  /\ error' = ""
  /\ tools' = 0
  /\ mcpServerRef' = NullRef
  /\ fe' = [fe EXCEPT ![f] = [FrontIdleTask EXCEPT !.kind = "restart", !.pc = "wait"]]
  /\ fout' = NoFout
  /\ UNCHANGED <<isReady, apiKeys, issued>>

\* restartConnection up to its 500 ms timer
RestartBegin(f) ==
  /\ fe[f].kind = "idle"
  /\ isReady' = FALSE
  /\ isStarting' = FALSE
  /\ error' = ""
  /\ tools' = 0
  /\ mcpServerRef' = NullRef
  /\ fe' = [fe EXCEPT ![f] = [FrontIdleTask EXCEPT !.kind = "restart", !.pc = "wait"]]
  /\ fout' = NoFout
  /\ UNCHANGED <<apiKeys, issued>>

\* the timer fires: await startHttpClient()
RestartDelayDone(f) ==
  /\ fe[f].kind = "restart" /\ fe[f].pc = "wait"
  /\ StartHttpClient(f, [fe[f] EXCEPT !.nStart = @ + 1], mcpServerRef)

\* the values handleSave stores for a key: the trimmed input, never empty
KeyValues == [e2b |-> {TRUE}, backendUrl |-> {1, 2}]

\* updateKey(provider, value), and the effect that writes localStorage
UpdateKey(provider, value) ==
  /\ apiKeys[provider] # value
  /\ apiKeys' = [apiKeys EXCEPT ![provider] = value]
  /\ fout' = NoFout
  /\ UNCHANGED <<mcpServerRef, isStarting, isReady, error, tools, issued, fe>>

FrontOnly == UNCHANGED <<workerVars, clientVars, app, chatVars, logVars>>

FrontNext ==
  \/ \E f \in FrontTasks : StartBegin(f) /\ FrontOnly
  \/ \E f \in FrontTasks : StartInitOk(f) /\ FrontOnly
  \/ \E f \in FrontTasks, r \in BackendInitFailures : StartInitFails(f, r) /\ FrontOnly
  \/ \E f \in FrontTasks, r \in BackendToolsResponses : StartToolsResponse(f, r) /\ FrontOnly
  \/ \E f \in FrontTasks : CallToolBegin(f) /\ FrontOnly
  \/ \E f \in FrontTasks, r \in BackendCallResponses : CallToolResponse(f, r) /\ FrontOnly
  \/ \E f \in FrontTasks, r \in BackendCallResponses : RetryResponse(f, r) /\ FrontOnly
  \/ \E f \in FrontTasks : RestartBegin(f) /\ FrontOnly
  \/ \E f \in FrontTasks : RestartDelayDone(f) /\ FrontOnly
  \/ \E provider \in DOMAIN KeyValues : \E value \in KeyValues[provider] :
       UpdateKey(provider, value) /\ FrontOnly

(***************************************************************************)
(* App: useApiChat() and App() each call useMcpTools().  The variables     *)
(* above are the instance inside useApiChat, whose tools the chat runs;    *)
(* app is the instance of App(), whose restartConnection Settings calls.   *)
(***************************************************************************)
NoApp ==
  [mcpServerRef |-> NullRef, isStarting |-> FALSE, isReady |-> FALSE, error |-> "",
   tools |-> 0, kind |-> "none", pc |-> "idle", sandboxId |-> 0, backendUrl |-> 0,
   \* history: the function of the instance that finished last
   done |-> "none"]

AppIdle == app = NoApp

\* the catch block of startHttpClient
AppCatch(a, tag) ==
  [a EXCEPT !.error = tag, !.isStarting = FALSE, !.isReady = FALSE, !.pc = "idle",
            !.done = a.kind]

\* startHttpClient up to its first await
AppStartHttpClient(a) ==
  IF ~apiKeys.e2b THEN AppCatch(a, "E2B API key not found")
  ELSE IF apiKeys.backendUrl = 0 THEN AppCatch(a, "Backend URL not configured")
  ELSE [a EXCEPT !.isStarting = TRUE, !.error = "", !.isReady = FALSE, !.pc = "init",
                 !.backendUrl = apiKeys.backendUrl]

\* the effect that starts the instance when App mounts
AppMount ==
  /\ app.kind = "none"
  /\ app' = AppStartHttpClient([app EXCEPT !.kind = "start"])
  /\ UNCHANGED frontVars

AppInitOk ==
  /\ app.pc = "init"
  /\ Len(issued) < MaxBackendSandboxes
  /\ issued' = Append(issued, app.backendUrl)
  /\ app' = [app EXCEPT !.pc = "tools", !.sandboxId = Len(issued) + 1]
  /\ UNCHANGED <<mcpServerRef, isStarting, isReady, error, tools, apiKeys, fe, fout>>

AppInitFails(r) ==
  /\ app.pc = "init"
  /\ app' = AppCatch(app, "Backend API error")
  /\ UNCHANGED frontVars

AppToolsResponse(r) ==
  /\ app.pc = "tools"
  /\ UNCHANGED frontVars
  /\ IF r.net = "ok" /\ IsOk(r.status)
     THEN app' = [app EXCEPT !.mcpServerRef = ServerRef(app.sandboxId, app.backendUrl),
                             !.tools = app.sandboxId, !.isReady = TRUE,
                             !.isStarting = FALSE, !.pc = "idle", !.done = app.kind]
     ELSE app' = AppCatch(app, "Backend tools error")

\* Settings.handleSave for the backend URL or the E2B key: updateKey, then
\* onSettingsSaved = restartConnection of App's instance, up to its timer
HandleSave(provider, value) ==
  /\ app.pc = "idle"
  /\ apiKeys' = [apiKeys EXCEPT ![provider] = value]
  /\ app' = [app EXCEPT !.isReady = FALSE, !.isStarting = FALSE, !.error = "",
                         !.tools = 0, !.mcpServerRef = NullRef,
                         !.kind = "restart", !.pc = "wait", !.done = "none"]
  /\ UNCHANGED <<mcpServerRef, isStarting, isReady, error, tools, issued, fe, fout>>

\* the timer of restartConnection fires: await startHttpClient()
AppRestartDelayDone ==
  /\ app.pc = "wait"
  /\ app' = AppStartHttpClient(app)
  /\ UNCHANGED frontVars

AppOnly == UNCHANGED <<workerVars, clientVars, chatVars, logVars>>

AppNext ==
  \/ \E f \in FrontTasks : StartBegin(f) /\ FrontOnly
  \/ \E f \in FrontTasks : StartInitOk(f) /\ FrontOnly
  \/ \E f \in FrontTasks, r \in BackendInitFailures : StartInitFails(f, r) /\ FrontOnly
  \/ \E f \in FrontTasks, r \in BackendToolsResponses : StartToolsResponse(f, r) /\ FrontOnly
  \/ \E f \in FrontTasks : CallToolBegin(f) /\ FrontOnly
  \/ \E f \in FrontTasks, r \in BackendCallResponses : CallToolResponse(f, r) /\ FrontOnly
  \/ \E f \in FrontTasks, r \in BackendCallResponses : RetryResponse(f, r) /\ FrontOnly
  \/ AppMount /\ AppOnly
  \/ AppInitOk /\ AppOnly
  \/ \E r \in BackendInitFailures : AppInitFails(r) /\ AppOnly
  \/ \E r \in BackendToolsResponses : AppToolsResponse(r) /\ AppOnly
  \/ \E provider \in DOMAIN KeyValues : \E value \in KeyValues[provider] :
       HandleSave(provider, value) /\ AppOnly
  \/ AppRestartDelayDone /\ AppOnly

(***************************************************************************)
(* useApiChat: handleSubmit, and streamChatCompletion with its callbacks.  *)
(* A message text is a sequence of words; the content of the assistant     *)
(* message is the number of text chunks received.                          *)
(***************************************************************************)
\* chunks one stream delivers at most
MaxChunks == 2
\* entries toolExecutions holds at most in one run
MaxExecutions == 2
\* messages of the history in which a submit is still accepted
MaxHistory == 1

ToolCallIds == {"call_1", "call_2"}

UserMessage == [role |-> "user", content |-> "u"]
AssistantMessage(n) == [role |-> "assistant", content |-> n]

\* message.includes(word)
Includes(message, word) == \E i \in 1..Len(message) : message[i] = word

\* what the provider's stream or its request fails with
RawErrors ==
  {<<"Neosantara", "API key", "not found. Please configure it in Settings.">>,
   <<"401", "Unauthorized">>, <<"429", "Too Many Requests">>, <<"timeout">>,
   <<"fetch", "failed">>, <<"Internal Server Error">>}

ProviderName(provider) == IF provider = "neosantara" THEN "Neosantara" ELSE "Groq"
OtherName(provider) == IF provider = "neosantara" THEN "Groq" ELSE "Neosantara"

\* the catch block of streamChatCompletion: userFriendlyError.message
UserFriendlyError(provider, message) ==
  IF Includes(message, "API key")
  THEN <<ProviderName(provider), "API key", "is invalid or missing. Please check your Settings.">>
  ELSE IF Includes(message, "401")
  THEN <<"Authentication failed with", ProviderName(provider),
         ". Please verify your", "API key", "in Settings.">>
  ELSE IF Includes(message, "429")
  THEN <<"Rate limit exceeded for", ProviderName(provider), ". Please try again later.">>
  ELSE IF Includes(message, "timeout")
  THEN <<"Request timed out after 2 minutes. The", ProviderName(provider),
         "API may be slow or unreachable. Try again or switch to", OtherName(provider),
         "in Settings.">>
  ELSE IF Includes(message, "fetch")
  THEN <<"Network error: Cannot reach", ProviderName(provider),
         "API. Check your internet connection or try switching to", OtherName(provider),
         "in Settings.">>
  ELSE message

NoProviderText ==
  <<"No LLM provider configured. Please add", "Neosantara", "or", "Groq",
    "API key", "in Settings.">>

BothFailedText(e1, e2) ==
  <<"Both Neosantara and Groq failed.", "Neosantara", ":">> \o e1 \o <<". Groq:">> \o e2

NotReadyText == <<"MCP server not ready yet. Please wait...">>

HsIdle ==
  [pc |-> "idle", provider |-> "", newMessages |-> <<>>, assistantMessage |-> 0,
   nChunks |-> 0,
   \* the tool calls of the running stream: "none", "started" or "called"
   calls |-> [id \in ToolCallIds |-> "none"],
   \* history: the messages before the submit, the providers tried, the
   \* error of each failed attempt, and how the last submit ended
   prior |-> <<>>, attempts |-> <<>>, errors |-> <<>>, done |-> "none"]

ChatIdle ==
  /\ messages = <<>>
  /\ isLoading = FALSE
  /\ chatError = <<>>
  /\ toolExecutions = <<>>
  /\ hs = HsIdle

\* the hook instance inside useApiChat, not started or ready, and the keys
FrontOfChat ==
  /\ isReady \in BOOLEAN
  /\ mcpServerRef = IF isReady THEN ServerRef(1, 1) ELSE NullRef
  /\ tools = IF isReady THEN 1 ELSE 0
  /\ issued = IF isReady THEN <<1>> ELSE <<>>
  /\ isStarting = FALSE
  /\ error = ""
  /\ apiKeys \in [e2b : {TRUE}, backendUrl : {1}, neosantara : BOOLEAN, groq : BOOLEAN]
  /\ fe = [f \in FrontTasks |-> FrontIdleTask]
  /\ fout = NoFout

\* the catch block of handleSubmit when no fallback is made, and its tail
\* after a failed fallback
SubmitFailed(h, err) ==
  /\ chatError' = err
  /\ isLoading' = FALSE
  /\ messages' = h.newMessages
  /\ hs' = [h EXCEPT !.pc = "idle", !.done = "failed"]

\* handleSubmit up to the first await of streamChatCompletion
HandleSubmit(input) ==
  /\ hs.pc = "idle"
  /\ Len(messages) <= MaxHistory
  /\ UNCHANGED toolExecutions
  /\ IF ~isReady
     THEN /\ chatError' = NotReadyText
          /\ hs' = [HsIdle EXCEPT !.prior = messages, !.done = "rejected"]
          /\ UNCHANGED <<messages, isLoading>>
     ELSE IF input = ""
     THEN /\ hs' = [HsIdle EXCEPT !.prior = messages, !.done = "rejected"]
          /\ UNCHANGED <<messages, isLoading, chatError>>
     ELSE LET newMessages == Append(messages, UserMessage)
              h == [HsIdle EXCEPT !.prior = messages, !.newMessages = newMessages]
          IN  IF ~apiKeys.neosantara /\ ~apiKeys.groq
              THEN \* getAvailableProvider() throws inside the try block
                   SubmitFailed(h, NoProviderText)
              ELSE /\ chatError' = <<>>
                   /\ isLoading' = TRUE
                   /\ messages' = Append(newMessages, AssistantMessage(0))
                   /\ hs' = [h EXCEPT
                               !.pc = "stream",
                               !.provider = IF apiKeys.neosantara THEN "neosantara" ELSE "groq",
                               !.attempts = <<IF apiKeys.neosantara THEN "neosantara"
                                              ELSE "groq">>]

ChunkTypes == {"text-delta", "tool-call-streaming-start", "tool-call", "step-finish"}

\* setToolExecutions(prev => [...prev, newExecution])
OnToolCallStart(executions, toolCallId, args) ==
  Append(executions, [id |-> toolCallId, status |-> "running", args |-> args])

\* one chunk of result.fullStream
StreamChunk(type, toolCallId) ==
  /\ hs.pc = "stream"
  /\ hs.nChunks < MaxChunks
  /\ UNCHANGED <<isLoading, chatError>>
  /\ CASE type = "text-delta" ->
            /\ messages' = Append(hs.newMessages, AssistantMessage(hs.assistantMessage + 1))
            /\ hs' = [hs EXCEPT !.nChunks = @ + 1, !.assistantMessage = @ + 1]
            /\ UNCHANGED toolExecutions
       [] type = "tool-call-streaming-start" ->
            /\ hs.calls[toolCallId] = "none"
            /\ Len(toolExecutions) < MaxExecutions
            /\ toolExecutions' = OnToolCallStart(toolExecutions, toolCallId, "{}")
            /\ hs' = [hs EXCEPT !.nChunks = @ + 1, !.calls[toolCallId] = "started"]
            /\ UNCHANGED messages
       [] type = "tool-call" ->
            /\ hs.calls[toolCallId] # "called"
            /\ Len(toolExecutions) < MaxExecutions
            /\ toolExecutions' = OnToolCallStart(toolExecutions, toolCallId, "args")
            /\ hs' = [hs EXCEPT !.nChunks = @ + 1, !.calls[toolCallId] = "called"]
            /\ UNCHANGED messages
       [] OTHER ->
            /\ hs' = [hs EXCEPT !.nChunks = @ + 1]
            /\ UNCHANGED <<messages, toolExecutions>>

\* a stream end that does not call onComplete
StreamEndsSilent ==
  /\ hs.pc = "stream"
  /\ hs' = [hs EXCEPT !.pc = "idle", !.done = "complete"]
  /\ UNCHANGED <<isLoading, messages, chatError, toolExecutions>>

\* the stream is exhausted: onComplete(), and handleSubmit returns
StreamEnds ==
  /\ hs.pc = "stream"
  /\ isLoading' = FALSE
  /\ hs' = [hs EXCEPT !.pc = "idle", !.done = "complete"]
  /\ UNCHANGED <<messages, chatError, toolExecutions>>

\* errorMessage.includes('Neosantara') && apiKeys.groq && apiKeys.neosantara
FallbackTaken(errorMessage) ==
  Includes(errorMessage, "Neosantara") /\ apiKeys.groq /\ apiKeys.neosantara

\* the stream or its request fails: onError(userFriendlyError), the throw,
\* and the catch block of handleSubmit
StreamFails(raw) ==
  /\ hs.pc = "stream"
  /\ UNCHANGED toolExecutions
  /\ LET err == UserFriendlyError(hs.provider, raw)
         h == [hs EXCEPT !.errors = Append(@, err)]
     IN  IF Len(hs.attempts) = 1
         THEN IF FallbackTaken(err)
              THEN /\ chatError' = err
                   /\ isLoading' = FALSE
                   /\ messages' = Append(hs.newMessages, AssistantMessage(0))
                   /\ hs' = [h EXCEPT !.provider = "groq", !.attempts = Append(@, "groq"),
                                       !.assistantMessage = 0, !.nChunks = 0,
                                       !.calls = HsIdle.calls]
              ELSE SubmitFailed(h, err)
         ELSE SubmitFailed(h, BothFailedText(hs.errors[1], err))

\* clearToolExecutions
ClearToolExecutions ==
  /\ toolExecutions # <<>>
  /\ toolExecutions' = <<>>
  /\ UNCHANGED <<messages, isLoading, chatError, hs>>

ChatOnly == UNCHANGED <<workerVars, clientVars, frontVars, app, logVars>>

\* the stream of the running attempt ends or fails
StreamSettles == (StreamEnds \/ \E raw \in RawErrors : StreamFails(raw)) /\ ChatOnly

ChatNext ==
  \/ \E input \in {"", "u"} : HandleSubmit(input) /\ ChatOnly
  \/ \E type \in ChunkTypes, toolCallId \in ToolCallIds : StreamChunk(type, toolCallId) /\ ChatOnly
  \/ StreamEnds /\ ChatOnly
  \/ \E raw \in RawErrors : StreamFails(raw) /\ ChatOnly
  \/ ClearToolExecutions /\ ChatOnly

(***************************************************************************)
(* What the worker writes to the console about one session.  A line is a   *)
(* sequence of words; a token contributes one word for each character.     *)
(***************************************************************************)
\* longest token of a run
MaxTokenLen == 12

\* the 10 of cached.mcpToken.substring(0, 10)
TokenPrefixLen == 10

\* tokens of every length from 1 to the bound, in two spellings
Tokens ==
  {[i \in 1..n |-> IF i = n THEN c ELSE "x"] : n \in 1..MaxTokenLen, c \in {"x", "y"}}

\* s.substring(0, n)
Substring(s, n) == SubSeq(s, 1, IF n < Len(s) THEN n ELSE Len(s))

\* console.log('   Token:', cached.mcpToken.substring(0, 10) + '...')
TokenLine(token) == <<"   Token:">> \o Substring(token, TokenPrefixLen) \o <<"...">>

\* the lines of createMcpSandbox and initializeMcpSession
NegotiateLines(token) ==
  {<<"Creating E2B sandbox with MCP gateway...">>, <<"MCP Servers:", "duckduckgo, arxiv">>,
   <<"Sandbox created successfully!">>, <<"MCP URL:", "url">>,
   <<"Initializing MCP session...">>, <<"   Initialize response:", "200">>,
   <<"   Session ID:", "sid">>, <<"   Server capabilities:", "{}">>,
   <<"   Initialized notification sent:", "202">>,
   <<"MCP session initialized with ID:", "sid">>}

\* the lines of the tools handler before its request
ListLines(token) ==
  {<<"Listing MCP tools for sandbox:", "sbx1">>, <<"   MCP URL:", "url">>,
   TokenLine(token), <<"   Session ID:", "sid">>}

\* the lines of the call handler before its request
CallLines(token) ==
  {<<"Calling tool:", "toolName">>, <<"   Args:", "{}">>, <<"   Session ID:", "sid">>}

LogIdle == mcpToken = <<>> /\ logged = {}

LogInit == mcpToken \in Tokens /\ logged = {}

LogNegotiate ==
  /\ ~(NegotiateLines(mcpToken) \subseteq logged)
  /\ logged' = logged \cup NegotiateLines(mcpToken)
  /\ UNCHANGED mcpToken

LogList ==
  /\ ~(ListLines(mcpToken) \subseteq logged)
  /\ logged' = logged \cup ListLines(mcpToken)
  /\ UNCHANGED mcpToken

LogCall ==
  /\ ~(CallLines(mcpToken) \subseteq logged)
  /\ logged' = logged \cup CallLines(mcpToken)
  /\ UNCHANGED mcpToken

LogOnly == UNCHANGED <<workerVars, clientVars, frontVars, app, chatVars>>

LogNext ==
  \/ LogNegotiate /\ LogOnly
  \/ LogList /\ LogOnly
  \/ LogCall /\ LogOnly

(***************************************************************************)
(* The protocol client on one response body, in both framings              *)
(***************************************************************************)
Framings == {"json", "sse"}
Routes == {"tools", "call"}
\* the three places that decode a response of the remote endpoint
Operations == Routes \cup {"initialize"}
Deliveries == Framings \X Operations

ClientBodies == Envelopes \cup {Pretty} \cup Malformed

Frame(framing, body) == IF framing = "sse" THEN SseFrame(body) ELSE body

NoAnswer == [done |-> FALSE, ct |-> "", resp |-> HttpResponse(0, ErrorBody(<<>>))]

ClientIdle == envl = <<>> /\ answers = [d \in Deliveries |-> NoAnswer]

ClientInit ==
  /\ envl \in ClientBodies
  /\ answers = [d \in Deliveries |-> NoAnswer]

\* the remote answers a tools/list with status 200, the body in the framing
ClientListTools(framing, ct) ==
  /\ ~answers[<<framing, "tools">>].done
  /\ answers' = [answers EXCEPT ![<<framing, "tools">>] =
       [done |-> TRUE, ct |-> ct,
        resp |-> ToolsOutcome(RemoteResp(200, ct, Frame(framing, envl), "<none>"))]]
  /\ UNCHANGED envl

\* the remote answers a tools/call with status 200, the body in the framing
ClientCallTool(framing, ct) ==
  /\ ~answers[<<framing, "call">>].done
  /\ answers' = [answers EXCEPT ![<<framing, "call">>] =
       [done |-> TRUE, ct |-> ct,
        resp |-> CallOutcome(RemoteResp(200, ct, Frame(framing, envl), "<none>"))]]
  /\ UNCHANGED envl

\* the remote answers an initialize request with status 200, the body in the
\* framing: initializeMcpSession throws (POST /api/mcp/init answers 500) or
\* goes on to the notification, with no response yet
ClientInitialize(framing, ct) ==
  /\ ~answers[<<framing, "initialize">>].done
  /\ LET f == InitializeFailure(RemoteResp(200, ct, Frame(framing, envl), "<none>"))
     IN  answers' = [answers EXCEPT ![<<framing, "initialize">>] =
           [done |-> TRUE, ct |-> ct,
            resp |-> IF f.failed THEN InitCatch(f.text) ELSE NoAnswer.resp]]
  /\ UNCHANGED envl

ClientOnly == UNCHANGED <<workerVars, frontVars, app, chatVars, logVars>>

ClientNext ==
  \/ \E framing \in Framings, ct \in ContentTypes : ClientListTools(framing, ct) /\ ClientOnly
  \/ \E framing \in Framings, ct \in ContentTypes : ClientCallTool(framing, ct) /\ ClientOnly
  \/ \E framing \in Framings, ct \in ContentTypes : ClientInitialize(framing, ct) /\ ClientOnly


ClientSpecInit == WorkerInit /\ ClientInit /\ FrontIdle /\ AppIdle /\ ChatIdle /\ LogIdle

SpecClient == ClientSpecInit /\ [][ClientNext]_vars

FrontSpecInit == WorkerInit /\ ClientIdle /\ FrontInit /\ AppIdle /\ ChatIdle /\ LogIdle

SpecFront == FrontSpecInit /\ [][FrontNext]_vars

ChatSpecInit == WorkerInit /\ ClientIdle /\ FrontOfChat /\ AppIdle /\ ChatIdle /\ LogIdle

SpecChat == ChatSpecInit /\ [][ChatNext]_vars

\* every stream ends or fails
SpecChatLive == ChatSpecInit /\ [][ChatNext]_vars /\ WF_vars(StreamSettles)

LogSpecInit == WorkerInit /\ ClientIdle /\ FrontIdle /\ AppIdle /\ ChatIdle /\ LogInit

SpecLog == LogSpecInit /\ [][LogNext]_vars

AppSpecInit == WorkerInit /\ ClientIdle /\ FrontInit /\ AppIdle /\ ChatIdle /\ LogIdle

SpecApp == AppSpecInit /\ [][AppNext]_vars

(***************************************************************************)
(* The worker                                                              *)
(***************************************************************************)
\* a step of the worker leaves the rest alone
WorkerOnly == UNCHANGED <<clientVars, frontVars, app, chatVars, logVars>>

Init == WorkerInit /\ ClientIdle /\ FrontIdle /\ AppIdle /\ ChatIdle /\ LogIdle

Next ==
  \/ \E t \in Tasks, req \in InitRequests : InitStart(t, req) /\ WorkerOnly
  \/ \E t \in Tasks : ProvisionFails(t) /\ WorkerOnly
  \/ \E t \in Tasks, id \in SandboxIds : Provision(t, id) /\ WorkerOnly
  \/ \E t \in Tasks, r \in InitializeOutcomes : InitializeResponse(t, r) /\ WorkerOnly
  \/ \E t \in Tasks, r \in NotifyOutcomes : NotifyResponse(t, r) /\ WorkerOnly
  \/ \E t \in Tasks : DelayDone(t) /\ WorkerOnly
  \/ \E t \in Tasks, path \in PreflightPaths : Preflight(t, path) /\ WorkerOnly
  \/ \E t \in Tasks : Health(t) /\ WorkerOnly
  \/ \E t \in Tasks : NoRoute(t) /\ WorkerOnly
  \/ \E t \in Tasks, k \in Keys : InfoStart(t, k) /\ WorkerOnly
  \/ \E t \in Tasks, running \in RunningOutcomes : InfoResponse(t, running) /\ WorkerOnly
  \/ \E t \in Tasks, k \in Keys : ToolsStart(t, k) /\ WorkerOnly
  \/ \E t \in Tasks, r \in RemoteOutcomes : ToolsResponse(t, r) /\ WorkerOnly
  \/ \E t \in Tasks, k \in Keys, req \in CallRequests : CallStart(t, k, req) /\ WorkerOnly
  \/ \E t \in Tasks, req \in CallRequests : CallBodyRead(t, req) /\ WorkerOnly
  \/ \E t \in Tasks, r \in RemoteOutcomes : CallResponse(t, r) /\ WorkerOnly

Spec == Init /\ [][Next]_vars

(***************************************************************************)
(* Properties of the worker                                                *)
(***************************************************************************)
\* the remote answered "not found" and said the session is gone
SessionLost(r) == r.net = "ok" /\ r.status = 404 /\ r.body = GoneText

\* C2: when a tools/list or tools/call round trip ends in a not-found
\* response saying the session is gone, the registry entry of the key is
\* evicted
C2_EvictedOnSessionLoss ==
  (out.route \in {"tools", "call"} /\ SessionLost(out.remote))
    => ~sandboxCache[out.key].present

\* C3: a call for a key that is in the registry, with a toolName in the body,
\* is answered 200 with a {result, isError} body, whatever the remote does
C3_CallAlways200 ==
  (out.route = "call" /\ out.found /\ out.req = "toolName")
    => /\ out.resp.status = 200
       /\ out.resp.body.kind = "call"
       /\ out.resp.body.isError \in BOOLEAN
       /\ out.remote \in RemoteOutcomes

C3_Witness ==
  /\ out.route = "call" /\ out.found /\ out.req = "toolName"
  /\ out.remote.net = "fail"
  /\ out.resp.status = 200 /\ out.resp.body.isError

\* C6: a tools or call request for a key without a registry entry is answered
\* 404 {error: 'Sandbox not found'} whatever its body holds, sends nothing to
\* a remote endpoint and leaves the registry as it was
C6_UnknownKey ==
  [][\A t \in Tasks, k \in Keys :
       ~sandboxCache[k].present =>
         /\ ToolsStart(t, k) =>
              (out'.resp = NotFound /\ wire' = <<>> /\ sandboxCache' = sandboxCache)
         /\ \A req \in CallRequests :
              CallStart(t, k, req) =>
                (out'.resp = NotFound /\ wire' = <<>> /\ sandboxCache' = sandboxCache)]_vars

C6_Witness ==
  /\ out.route = "call" /\ ~out.found /\ out.req = "noToolName"
  /\ out.resp = NotFound
  /\ \E k \in Keys : sandboxCache[k].present

\* an envelope with a result and no error, as plain JSON or in SSE framing
ResultEnvelopes ==
  {e \in Envelopes \cup {TextEnvelope} :
     LET p == JSONparse(e)
     IN  p.ok /\ p.v.t = "object" /\ DOMAIN p.v.m = {"result"}}

WellFormedInitialize(r) ==
  /\ r.net = "ok" /\ IsOk(r.status)
  /\ \E e \in ResultEnvelopes :
       \/ r.body = e /\ r.ct # "text/event-stream"
       \/ r.body = SseFrame(e)

\* the initialize response of the negotiation that ended with out
InitializeOf(o) == IF o.neg.pc = "initialize" THEN o.remote ELSE o.neg.initialize

\* C7: a negotiation whose initialize response is well-formed (JSON or SSE,
\* success status) succeeds, and the stored session is initialized and has
\* the Mcp-Session-Id header value, or "" without the header
C7_WellFormedNegotiates ==
  (out.route = "init" /\ out.neg.pc \in {"initialize", "notify", "delay"}
     /\ WellFormedInitialize(InitializeOf(out)))
    => /\ out.resp.status = 200
       /\ sandboxCache[out.key].present
       /\ sandboxCache[out.key].initialized
       /\ sandboxCache[out.key].sessionId
            = (IF InitializeOf(out).sid = "<none>" THEN "" ELSE InitializeOf(out).sid)

\* C8: an entry is initialized only if the notification of its negotiation
\* (like its initialize request) got a 2xx response
C8_EstablishedOnlyAfterBothSteps ==
  \A k \in Keys :
    (sandboxCache[k].present /\ sandboxCache[k].initialized)
      => IsOk(sandboxCache[k].notified)

\* the dual-encoding rule yields a JSON value for the body
DecodableBody(contentType, toks) ==
  IF IsSse(contentType, toks)
  THEN DataMatch(toks).ok /\ JSONparse(DataMatch(toks).group).ok
  ELSE JSONparse(toks).ok

\* what a negotiation has sent and seen so far
HandshakeInOrder(tk) ==
  /\ tk.nInitialize <= 1 /\ tk.nNotify <= 1
  /\ tk.pc \in {"initialize", "notify", "delay"} => tk.nInitialize = 1
  /\ tk.nNotify = 1 =>
       /\ tk.nInitialize = 1
       /\ tk.initialize.net = "ok" /\ IsOk(tk.initialize.status)
       /\ DecodableBody(tk.initialize.ct, tk.initialize.body)

\* C9: a negotiation sends one initialize request and at most one
\* notification, the notification only after an initialize response with a
\* success status and a decodable body; after a failed initialize nothing
\* more is sent
C9_HandshakeOrder ==
  /\ \A t \in Tasks : HandshakeInOrder(task[t])
  /\ out.route = "init" =>
       /\ HandshakeInOrder(out.neg)
       /\ (out.neg.pc = "initialize" /\ out.remote.net # "none") =>
            (out.neg.nNotify = 0 /\ wire = <<>> /\ out.resp.status = 500)
  /\ \A i \in 1..Len(wire) :
       wire[i].method = "notifications/initialized" =>
         \E t \in Tasks : task[t].pc = "notify" /\ task[t].nNotify = 1

C9_Witness ==
  /\ out.route = "init" /\ out.neg.pc = "initialize"
  /\ out.remote.net = "ok" /\ IsOk(out.remote.status)
  /\ ~DecodableBody(out.remote.ct, out.remote.body)
  /\ out.neg.nInitialize = 1 /\ out.neg.nNotify = 0

\* text holds sub as a contiguous part
Contains(text, sub) ==
  \E i \in 1..(Len(text) + 1) :
    i + Len(sub) - 1 <= Len(text) /\ SubSeq(text, i, i + Len(sub) - 1) = sub

C16_LastWriteWins ==
  [][\A k \in Keys :
       /\ sandboxCache'[k] # sandboxCache[k] =>
            \E t \in Tasks :
              /\ task[t].pc = "delay" /\ task[t].key = k /\ task'[t] = Idle
              /\ sandboxCache'[k].present
              /\ sandboxCache'[k].mcpUrl = task[t].sandbox
              /\ sandboxCache'[k].mcpToken = task[t].sandbox
              /\ sandboxCache'[k].sessionId = SessionIdOf(task[t].initialize.sid)
       /\ \A t \in Tasks :
            (task[t].route = "idle" /\ task'[t].route \in {"info", "tools", "call"}
               /\ task'[t].key = k)
              => task'[t].cached = sandboxCache[k]]_vars

\* the entry of a key was replaced while a listing of the key is in flight
C16_Witness ==
  \E t \in Tasks :
    /\ task[t].route = "tools" /\ task[t].pc = "fetch"
    /\ sandboxCache[task[t].key].present
    /\ sandboxCache[task[t].key].mcpUrl # task[t].cached.mcpUrl
    /\ sandboxCache[task[t].key].mcpToken = sandboxCache[task[t].key].mcpUrl

ClientRoutes == {"info", "tools", "call"}

\* C17: no step of the sandbox-info, list or call handlers changes the
\* registry, whatever the step's outcome
C17_ClientReadsOnly ==
  [][(\/ out'.route \in ClientRoutes
      \/ \E t \in Tasks : /\ task'[t] # task[t]
                          /\ (task[t].route \in ClientRoutes
                                \/ task'[t].route \in ClientRoutes))
       => sandboxCache' = sandboxCache]_vars

C17_Witness ==
  /\ out.route = "call" /\ out.found /\ out.req = "toolName"
  /\ out.remote.status = 404
  /\ sandboxCache[out.key] = out.neg.cached

\* C18: the notification carries the Mcp-Session-Id of its negotiation's
\* initialize response when there is one; a tools/list or tools/call request
\* carries the endpoint, token and sessionId of the entry read for its key
C18_SessionIdPropagated ==
  \A i \in 1..Len(wire) :
    /\ wire[i].method = "notifications/initialized" =>
         \E t \in Tasks :
           /\ task[t].pc = "notify"
           /\ wire[i].url = task[t].sandbox /\ wire[i].token = task[t].sandbox
           /\ wire[i].sid = task[t].initialize.sid
    /\ wire[i].method \in {"tools/list", "tools/call"} =>
         \E t \in Tasks :
           /\ task[t].pc = "fetch" /\ task[t].cached.present
           /\ wire[i].url = task[t].cached.mcpUrl
           /\ wire[i].token = task[t].cached.mcpToken
           /\ wire[i].sid = task[t].cached.sessionId

C18_Witness ==
  /\ wire # <<>>
  /\ wire[1].method = "notifications/initialized" /\ wire[1].sid = "sA"

\* C19: the call handler sends its request with the entry it read when the
\* request arrived, whatever the registry holds for the key by then
C19_SnapshotUsed ==
  [][\A t \in Tasks :
       (task[t].route = "call" /\ task[t].pc = "body" /\ task'[t].pc = "fetch") =>
         /\ task'[t].cached = task[t].cached
         /\ wire' = <<McpRequest("tools/call", task[t].cached.mcpUrl,
                                 task[t].cached.mcpToken, task[t].cached.sessionId)>>]_vars

\* a call was sent with a session that a later put had replaced
C19_Witness ==
  \E t \in Tasks :
    /\ task[t].route = "call" /\ task[t].pc = "fetch"
    /\ wire = <<McpRequest("tools/call", task[t].cached.mcpUrl,
                           task[t].cached.mcpToken, task[t].cached.sessionId)>>
    /\ sandboxCache[task[t].key].mcpUrl # task[t].cached.mcpUrl

\* C20: every non-2xx response of the remote, the notification's included,
\* ends the operation in a failure or error outcome that holds the remote
\* body, and a JSON-RPC error answered to initialize ends the negotiation in
\* a failure that holds the remote message
C20_RemoteMessagePreserved ==
  /\ (out.route = "tools" /\ out.remote.net = "ok" /\ ~IsOk(out.remote.status)) =>
       (out.resp.status = 500 /\ Contains(out.resp.body.error, out.remote.body))
  /\ (out.route = "call" /\ out.remote.net = "ok" /\ ~IsOk(out.remote.status)) =>
       (out.resp.body.isError
          /\ Contains(Prop(out.resp.body.result, "error").s, out.remote.body))
  /\ (out.route = "init" /\ out.neg.pc = "initialize" /\ out.remote.net = "ok"
        /\ ~IsOk(out.remote.status)) =>
       (out.resp.status = 500 /\ Contains(out.resp.body.error, out.remote.body))
  /\ (out.route = "init" /\ out.neg.pc = "delay") =>
       (out.resp.status = 200 => IsOk(out.neg.notified))
  /\ (out.route = "init" /\ out.neg.pc = "initialize" /\ out.remote.net = "ok"
        /\ IsOk(out.remote.status) /\ out.remote.body = ErrorEnvelope) =>
       (out.resp.status = 500 /\ Contains(out.resp.body.error, <<"X">>))

C22_InfoAlwaysAnswers ==
  out.route = "info" =>
    IF ~out.found THEN out.resp = NotFound
    ELSE /\ out.resp.status = 200
         /\ out.resp.body.kind = "info"
         /\ out.resp.body.sandboxId = out.key
         /\ out.resp.body.url = out.neg.cached.mcpUrl
         /\ (out.req # "true") => out.resp.body.isRunning = FALSE

(***************************************************************************)
(* Properties of the protocol client                                       *)
(***************************************************************************)
\* a JSON-RPC error object with a message string
HasErrorMessage(v) ==
  /\ v.t = "object"
  /\ Prop(v, "error").t = "object"
  /\ Prop(Prop(v, "error"), "message").t = "string"

\* C4 as claimed: an envelope with error {message: X} on a call gives 200,
\* isError = true and the error text X
C4_CallErrorIsExactMessage ==
  \A framing \in Framings :
    LET a == answers[<<framing, "call">>]
        d == CallDecode(a.ct, Frame(framing, envl))
    IN  (a.done /\ d.ok /\ HasErrorMessage(d.v))
          => /\ a.resp.status = 200
             /\ a.resp.body.kind = "call"
             /\ a.resp.body.isError
             /\ Prop(a.resp.body.result, "error") = Prop(Prop(d.v, "error"), "message")

\* C4, amended: 200 and isError = true always; the error text is X when X is
\* not empty, and the serialised error object when X is the empty string
C4_CallErrorIsData ==
  \A framing \in Framings :
    LET a == answers[<<framing, "call">>]
        d == CallDecode(a.ct, Frame(framing, envl))
        x == Prop(Prop(d.v, "error"), "message")
    IN  (a.done /\ d.ok /\ HasErrorMessage(d.v))
          => /\ a.resp.status = 200
             /\ a.resp.body.kind = "call"
             /\ a.resp.body.isError
             /\ x.s # <<>> => Prop(a.resp.body.result, "error") = x
             /\ x.s = <<>> =>
                  Prop(a.resp.body.result, "error") = JStr(Stringify(Prop(d.v, "error")))

C4_Witness ==
  /\ envl = ErrorEnvelope
  /\ answers[<<"sse", "call">>].done
  /\ answers[<<"sse", "call">>].resp.body.isError
  /\ Prop(answers[<<"sse", "call">>].resp.body.result, "error") = JStr(<<"X">>)

\* C5: an envelope with a JSON-RPC error (a truthy error member) makes the
\* listing fail with 500 {error, details}, the error holding the remote
\* message, and never gives {tools, count}; the same envelope on a call is
\* data with status 200
C5_ListFailsCallReturns ==
  \A framing \in Framings :
    LET l == answers[<<framing, "tools">>]
        c == answers[<<framing, "call">>]
        dl == ToolsDecode(l.ct, Frame(framing, envl))
        dc == CallDecode(c.ct, Frame(framing, envl))
    IN  /\ (l.done /\ dl.ok /\ dl.v.t = "object" /\ Truthy(Prop(dl.v, "error")))
             => /\ l.resp.status = 500
                /\ l.resp.body.kind = "failure"
                /\ HasErrorMessage(dl.v) =>
                     Contains(l.resp.body.error, Prop(Prop(dl.v, "error"), "message").s)
        /\ (c.done /\ dc.ok /\ dc.v.t = "object" /\ Truthy(Prop(dc.v, "error")))
             => /\ c.resp.status = 200
                /\ c.resp.body.kind = "call"
                /\ c.resp.body.isError

C5_Witness ==
  /\ envl = ErrorEnvelope
  /\ answers[<<"json", "tools">>].done /\ answers[<<"json", "call">>].done
  /\ answers[<<"json", "tools">>].resp.status = 500
  /\ answers[<<"json", "tools">>].resp.body.error = <<"MCP error: ", "X">>
  /\ answers[<<"json", "call">>].resp.status = 200

\* a JSON-RPC envelope on one line: an object, as a "data:" line can hold it
IsEnvelope(body) ==
  /\ JSONparse(body).ok /\ JSONparse(body).v.t = "object"
  /\ \A i \in 1..Len(body) : body[i] # "<NL>"

\* C10: an envelope in SSE framing gets the same response from the list and
\* call handlers as the same envelope sent as a plain JSON body
C10_SseEqualsJson ==
  \A route \in Routes :
    LET j == answers[<<"json", route>>]
        e == answers[<<"sse", route>>]
    IN  (IsEnvelope(envl) /\ j.done /\ e.done /\ j.ct # "text/event-stream")
          => j.resp = e.resp

\* the response says the body could not be decoded, and how
ToolsUndecoded(resp, text) ==
  resp.status = 500 /\ resp.body.kind = "failure" /\ resp.body.error = text

CallUndecoded(resp, text) ==
  /\ resp.status = 200 /\ resp.body.kind = "call" /\ resp.body.isError
  /\ resp.body.result = JObj("error" :> JStr(text))

Undecoded(route, resp, text) ==
  IF route = "tools" THEN ToolsUndecoded(resp, text) ELSE CallUndecoded(resp, text)

\* the content-type names SSE, or the body begins with "event:"
SseClassified(contentType, body) ==
  contentType = "text/event-stream" \/ (body # <<>> /\ Head(body) = "event: message")

\* a list or call response that is a success result
IsSuccess(route, resp) ==
  /\ resp.status = 200
  /\ IF route = "tools" THEN resp.body.kind = "tools"
     ELSE resp.body.kind = "call" /\ ~resp.body.isError

\* C11: a body is decoded as SSE exactly when the content-type holds
\* 'text/event-stream' or the body begins with 'event:', and is otherwise
\* parsed whole as JSON; an SSE-classified body without a data line fails
\* the list with 500 and the call with isError, never a success result
C11_DecodeRule ==
  \A framing \in Framings, route \in Routes :
    LET a == answers[<<framing, route>>]
        body == Frame(framing, envl)
        whole == JSONparse(body)
        dm == DataMatch(body)
    IN  a.done =>
          IF SseClassified(a.ct, body)
          THEN /\ ~dm.ok => (Undecoded(route, a.resp, NoSseDataText)
                               /\ ~IsSuccess(route, a.resp))
               /\ dm.ok => (Undecoded(route, a.resp, SyntaxErrorText)
                              <=> ~JSONparse(dm.group).ok)
          ELSE /\ ~Undecoded(route, a.resp, NoSseDataText)
               /\ Undecoded(route, a.resp, SyntaxErrorText) <=> ~whole.ok

C11_Witness ==
  /\ envl = <<"event: message", "<NL>">>
  /\ answers[<<"json", "tools">>].done /\ answers[<<"json", "tools">>].ct = "application/json"
  /\ answers[<<"json", "tools">>].resp = ToolsCatch(NoSseDataText)
  /\ answers[<<"json", "call">>].done /\ answers[<<"json", "call">>].ct = ""
  /\ answers[<<"json", "call">>].resp.body.isError

\* initializeMcpSession could not decode the body: JSON.parse threw, or no
\* envelope was found and the read of initData.result threw
InitUndecoded(resp, contentType, body) ==
  \/ resp = InitCatch(SyntaxErrorText)
  \/ (resp = InitCatch(TypeErrorText) /\ InitDecode(contentType, body).v = JUndef)

\* C12: for every content-type and body, initializeMcpSession and the list
\* and call handlers all fail to decode it, or all decode the same envelope;
\* an SSE-classified body without a data line fails all three
C12_SameDecodeEverywhere ==
  \A framing \in Framings, ct \in ContentTypes :
    LET i == answers[<<framing, "initialize">>]
        l == answers[<<framing, "tools">>]
        c == answers[<<framing, "call">>]
        body == Frame(framing, envl)
        li == \E text \in {SyntaxErrorText, NoSseDataText} : ToolsUndecoded(l.resp, text)
        ci == \E text \in {SyntaxErrorText, NoSseDataText} : CallUndecoded(c.resp, text)
        ii == InitUndecoded(i.resp, ct, body)
    IN  (i.done /\ l.done /\ c.done /\ i.ct = ct /\ l.ct = ct /\ c.ct = ct) =>
          /\ li = ci /\ ci = ii
          /\ ~ii => /\ ToolsDecode(ct, body).v = InitDecode(ct, body).v
                    /\ CallDecode(ct, body).v = InitDecode(ct, body).v
          /\ (SseClassified(ct, body) /\ ~DataMatch(body).ok) => (li /\ ci /\ ii)

C12_Witness ==
  /\ envl = <<"event: message", "<NL>">>
  /\ \A op \in Operations :
       answers[<<"json", op>>].done /\ answers[<<"json", op>>].ct = "application/json"
  /\ answers[<<"json", "initialize">>].resp = InitCatch(TypeErrorText)
  /\ answers[<<"json", "tools">>].resp = ToolsCatch(NoSseDataText)

\* an envelope without an error member whose result, or result.tools, is absent
NoToolsEnvelope(v) ==
  /\ v.t = "object" /\ "error" \notin DOMAIN v.m
  /\ \/ "result" \notin DOMAIN v.m
     \/ Prop(v, "result").t = "null"
     \/ Prop(Prop(v, "result"), "tools").t = "undefined"

\* C13: a decoded envelope without an error member and without result.tools
\* (or without result) is listed as 200 {tools: [], count: 0}; in every
\* successful listing count is the length of tools
C13_AbsentToolsIsEmpty ==
  \A framing \in Framings :
    LET l == answers[<<framing, "tools">>]
        d == ToolsDecode(l.ct, Frame(framing, envl))
    IN  l.done =>
          /\ (d.ok /\ NoToolsEnvelope(d.v)) =>
               /\ l.resp.status = 200 /\ l.resp.body.kind = "tools"
               /\ l.resp.body.tools = JArr(<<>>)
               /\ l.resp.body.count = [def |-> TRUE, n |-> 0]
          /\ (l.resp.status = 200 /\ l.resp.body.kind = "tools") =>
               /\ l.resp.body.tools.t # "undefined"
               /\ l.resp.body.tools.t = "array" =>
                    /\ l.resp.body.count.def
                    /\ l.resp.body.count.n = Len(l.resp.body.tools.items)
               /\ l.resp.body.tools.t # "array" => ~l.resp.body.count.def

C13_Witness ==
  /\ envl = <<"{", "result:", "{", "}", "}">>
  /\ answers[<<"sse", "tools">>].done
  /\ answers[<<"sse", "tools">>].resp.status = 200
  /\ answers[<<"sse", "tools">>].resp.body.tools = JArr(<<>>)

(***************************************************************************)
(* Properties of useMcpTools                                               *)
(***************************************************************************)
\* a callTool that has ended after its first call was answered 404
\* 'Sandbox not found'
RecoveredCall(o) == o.kind = "call" /\ IsSandboxNotFound(o.tk.first)

\* the error of a failed retry is what the caller gets
RetrySurfaced(o) ==
  /\ o.tk.retry.net = "fail" => (o.how = "throw" /\ o.error = NetworkError)
  /\ (o.tk.retry.net = "ok" /\ ~IsOk(o.tk.retry.status)) =>
       (o.how = "throw" /\ o.error.tag = "Backend tool call error after reinit"
          /\ o.error.status = o.tk.retry.status)
  /\ (o.tk.retry.net = "ok" /\ IsOk(o.tk.retry.status)) =>
       (o.how = "return" /\ o.result = o.tk.retry)

\* C1 as claimed: a call answered 404 'Sandbox not found' runs startHttpClient
\* once and retries the call once; a failed retry surfaces the retry's error
C1_OneReinitOneRetry ==
  RecoveredCall(fout) =>
    /\ fout.tk.nStart = 1
    /\ fout.tk.nRetry = 1
    /\ RetrySurfaced(fout)

\* C1, amended: such a call runs startHttpClient once and retries at most
\* once: once when mcpServerRef holds a sandbox as that run returns, and
\* otherwise not at all, the caller getting 'Failed to reinitialize MCP
\* server'; a failed retry surfaces the retry's error; no call runs
\* startHttpClient or retries a second time, and a call answered otherwise
\* does neither
C1_OneReinitAtMostOneRetry ==
  /\ \A f \in FrontTasks :
       /\ fe[f].nStart <= 1 /\ fe[f].nCalls <= 1 /\ fe[f].nRetry <= 1
       /\ fe[f].nRetry = 1 => fe[f].nStart = 1
       /\ (fe[f].kind = "call" /\ fe[f].nStart = 1) => IsSandboxNotFound(fe[f].first)
  /\ RecoveredCall(fout) =>
       /\ fout.tk.nStart = 1 /\ fout.tk.nCalls = 1 /\ fout.tk.nRetry <= 1
       /\ fout.tk.nRetry = 0 =>
            /\ ~mcpServerRef.set
            /\ fout.how = "throw"
            /\ fout.error.tag = "Failed to reinitialize MCP server"
       /\ fout.tk.nRetry = 1 => (fout.tk.target.set /\ RetrySurfaced(fout))
  /\ (fout.kind = "call" /\ ~IsSandboxNotFound(fout.tk.first)) =>
       (fout.tk.nStart = 0 /\ fout.tk.nRetry = 0)

C1_Witness ==
  /\ RecoveredCall(fout)
  /\ fout.tk.nStart = 1 /\ fout.tk.nRetry = 1
  /\ fout.tk.retry = BackendResp(500, "not json", 0, FALSE)
  /\ fout.how = "throw" /\ fout.error = RetryError(500)

\* the one response the statement calls recoverable
SandboxGone(r) == r.net = "ok" /\ r.status = 404 /\ r.error = "Sandbox not found"

\* the response the step of callTool f read, and the record of that call
CallOf(f) == IF fe'[f].kind = "call" THEN fe'[f] ELSE fout'.tk

\* C21: callTool re-initializes only for a 404 whose body error is exactly
\* 'Sandbox not found'; for every other non-OK response it throws
\* 'Backend tool call error (<status>)' at once, without a run of
\* startHttpClient and without changing mcpServerRef or isReady
C21_OnlySandboxNotFoundRecovers ==
  [][\A f \in FrontTasks :
       (fe[f].pc = "call" /\ fe'[f] # fe[f]) =>
         LET tk == CallOf(f)
             r == tk.first
         IN  /\ (tk.nStart > fe[f].nStart) => SandboxGone(r)
             /\ (r.net = "ok" /\ ~IsOk(r.status) /\ ~SandboxGone(r)) =>
                   /\ fout' = Fout("call", "throw", CallError(r.status), r, tk)
                   /\ tk.nStart = 0
                   /\ fe'[f] = FrontIdleTask
                   /\ mcpServerRef' = mcpServerRef
                   /\ isReady' = isReady
                   /\ isStarting' = isStarting]_vars

\* a 404 that is not 'Sandbox not found' was thrown as it is, the hook ready
C21_Witness ==
  /\ fout.kind = "call" /\ fout.how = "throw"
  /\ fout.result = BackendResp(404, "Not found", 0, FALSE)
  /\ fout.error = CallError(404)
  /\ fout.tk.nStart = 0
  /\ isReady /\ mcpServerRef.set

\* C29: under every interleaving of startHttpClient, restartConnection and
\* callTool (its re-initialization and overlapping starts included),
\* isReady implies that mcpServerRef holds a sandbox id a successful init
\* returned, with the backend URL that returned it; and isStarting and
\* isReady are never both true
C29_ReadyHoldsServer ==
  /\ isReady =>
       /\ mcpServerRef.set
       /\ mcpServerRef.sandboxId \in 1..Len(issued)
       /\ issued[mcpServerRef.sandboxId] = mcpServerRef.backendUrl
  /\ ~(isStarting /\ isReady)

\* a restart after the backend URL was changed has made the hook ready
\* while a callTool that re-initializes is still suspended
C29_Witness ==
  /\ isReady /\ ~isStarting
  /\ fout.kind = "restart" /\ fout.how = "done"
  /\ mcpServerRef = ServerRef(2, 2)
  /\ issued = <<1, 2>>
  /\ \E f \in FrontTasks : fe[f].kind = "call" /\ fe[f].nStart = 1

(***************************************************************************)
(* Properties of the chat                                                  *)
(***************************************************************************)
\* C26: whenever a completion through Neosantara fails and a Groq key is
\* configured, the request is retried exactly once through Groq; if the
\* fallback fails too the error reports both failures; there is no third
\* attempt
C26_FallbackOnce ==
  /\ Len(hs.attempts) <= 2
  /\ (Len(hs.errors) >= 1 /\ hs.attempts[1] = "neosantara" /\ apiKeys.groq) =>
       (Len(hs.attempts) = 2 /\ hs.attempts[2] = "groq")
  /\ (Len(hs.errors) = 2) =>
       (hs.done = "failed" /\ chatError = BothFailedText(hs.errors[1], hs.errors[2]))

\* C27: toolExecutions holds at most one entry for each toolCallId: a
\* 'tool-call' chunk that follows the 'tool-call-streaming-start' chunk of
\* the same id updates the placeholder and appends nothing
C27_OneEntryPerToolCall ==
  \A i, j \in 1..Len(toolExecutions) :
    toolExecutions[i].id = toolExecutions[j].id => i = j

\* C28: once handleSubmit has completed, no tool execution it recorded is
\* still 'running'
C28_NoRunningAfterSubmit ==
  (hs.pc = "idle" /\ hs.done \in {"complete", "failed"}) =>
    \A i \in 1..Len(toolExecutions) : toolExecutions[i].status # "running"

\* C30: if every stream ends or fails, a handleSubmit that set isLoading
\* sets it back to false on every path; and after a failure that the
\* fallback did not recover, messages is the history before the submit plus
\* the user message, without the empty assistant message
C30_LoadingEnds ==
  /\ isLoading ~> ~isLoading
  /\ [](hs.done = "failed" => messages = Append(hs.prior, UserMessage))

\* both attempts have failed: loading is over and the placeholder is gone
C30_Witness ==
  /\ hs.pc = "idle" /\ hs.done = "failed"
  /\ hs.attempts = <<"neosantara", "groq">> /\ Len(hs.errors) = 2
  /\ ~isLoading
  /\ messages = <<UserMessage>>

(***************************************************************************)
(* Properties of the console output                                        *)
(***************************************************************************)
\* C23: for every token value, no line written by negotiate, list or call
\* holds the complete token
C23_TokenNeverWhole == \A line \in logged : ~Contains(line, mcpToken)

(***************************************************************************)
(* Properties of the application                                           *)
(***************************************************************************)
\* restartConnection, called by Settings, has completed and left its
\* instance ready
RestartSucceeded == app.done = "restart" /\ app.isReady

\* C25: after restartConnection (triggered by saving the backend URL or the
\* E2B key in Settings) has completed successfully, a tool call executed by
\* the chat is sent to the sandbox id and backend URL that the restart
\* created
C25_ChatFollowsRestart ==
  [][\A f \in FrontTasks :
       (RestartSucceeded /\ fe[f].kind = "idle" /\ fe'[f].pc = "call") =>
         fe'[f].target = app.mcpServerRef]_vars

====
